---- MODULE Spec2Model ----
(***************************************************************************)
(* Model of the ideal-functions application: IdealFunctionsManager         *)
(* (selection of ideal functions by least squared deviation, mapping of    *)
(* test points under the max-deviation * sqrt(2) criterion), the           *)
(* DataManager tables it loads and saves, and the REST operations that     *)
(* change its state.                                                       *)
(*                                                                         *)
(* Numbers.  A float is a pair <<n, d>>: d > 0 is the rational n/d in      *)
(* lowest terms, <<0, 0>> is NaN and <<1, 0>> is +inf.  Arithmetic on      *)
(* floats is exact.  A stored number is the exact value of the double the  *)
(* code holds, which lies within rounding of it.  Where the exact values   *)
(* do not decide a comparison of the code, the doubles are computed as the *)
(* code computes them, operation by operation in IEEE 754 arithmetic, and  *)
(* compared: see "IEEE doubles" and "the computations in doubles" below.   *)
(***************************************************************************)
EXTENDS Integers, Sequences, FiniteSets

\* ------------------------------------------------------------------ floats
NaN == <<0, 0>>
Inf == <<1, 0>>

IsNaN(a) == a = NaN
IsFinite(a) == a[2] > 0

Abs(n) == IF n < 0 THEN 0 - n ELSE n

\* n/d with d > 0, in lowest terms.
Norm(n, d) ==
    LET RECURSIVE GCD(_, _)
        GCD(a, b) == IF b = 0 THEN a ELSE GCD(b, a % b)
        g == GCD(Abs(n), d)
    IN  <<(IF n < 0 THEN 0 - (Abs(n) \div g) ELSE n \div g), d \div g>>

FInt(n) == <<n, 1>>

FAdd(a, b) ==
    IF ~IsFinite(a) \/ ~IsFinite(b) THEN NaN
    ELSE Norm(a[1] * b[2] + b[1] * a[2], a[2] * b[2])

FSub(a, b) ==
    IF ~IsFinite(a) \/ ~IsFinite(b) THEN NaN
    ELSE Norm(a[1] * b[2] - b[1] * a[2], a[2] * b[2])

FMul(a, b) ==
    IF ~IsFinite(a) \/ ~IsFinite(b) THEN NaN
    ELSE Norm(a[1] * b[1], a[2] * b[2])

FAbs(a) == IF IsFinite(a) THEN <<Abs(a[1]), a[2]>> ELSE a

\* a < b as IEEE compares: any comparison with NaN is false.
FLt(a, b) ==
    IF IsNaN(a) \/ IsNaN(b) THEN FALSE
    ELSE IF b = Inf THEN a # Inf
    ELSE IF a = Inf THEN FALSE
    ELSE a[1] * b[2] < b[1] * a[2]

FLe(a, b) ==
    IF IsNaN(a) \/ IsNaN(b) THEN FALSE
    ELSE a = b \/ FLt(a, b)

\* a <= b * 2**0.5 for a, b >= 0, decided exactly on the squares.
LeTimesSqrt2(a, b) ==
    IF ~IsFinite(a) \/ ~IsFinite(b) THEN FALSE
    ELSE (a[1] * b[2]) * (a[1] * b[2]) <= 2 * (b[1] * a[2]) * (b[1] * a[2])

\* ------------------------------------------------- sklearn LinearRegression
\* Grid and column cells are numbers <<n, d>> or missing (NaN).
HasNaN(s) == \E k \in 1..Len(s) : ~IsFinite(s[k])

\* The line of LinearRegression.fit(x, y), ordinary least squares with an
\* intercept, from the count n and the sums Sx, Sy, Sxx, Sxy of the cells,
\* which are numbers <<n, d>>; D is n * Sxx - Sx * Sx. D = 0 is a grid of one
\* row or of equal values: fit subtracts the mean of the grid from the grid,
\* a column of zeros is left, for which the solver returns the coefficient
\* 0 (see "lstsq" below), and intercept_ is the mean of y. (Equal cells whose
\* mean in doubles is not the cell, as 0.1, 0.1, 0.1, leave a column of
\* rounding errors instead; the files of the model have integer cells.)
LeastSquares(n, Sx, Sy, Sxx, Sxy, D) ==
    LET Over(a, b) == Norm(a[1] * b[2], a[2] * b[1])
    IN  IF D = FInt(0)
        THEN [ok |-> TRUE, slope |-> FInt(0), intercept |-> Over(Sy, FInt(n))]
        ELSE [ok |-> TRUE,
              slope |-> Over(FSub(FMul(FInt(n), Sxy), FMul(Sx, Sy)), D),
              intercept |-> Over(FSub(FMul(Sy, Sxx), FMul(Sx, Sxy)), D)]

\* self.model.fit(x, y). fit raises on a missing value, on a non-numeric
\* target, on an empty grid and on columns of different lengths.
\* SumTo(a, b, j) is the sum over k in 1..j of a[k] * b[k].
ModelFit(x, y) ==
    LET n == Len(x)
        RECURSIVE SumTo(_, _, _)
        SumTo(a, b, j) ==
            IF j = 0 THEN FInt(0) ELSE FAdd(FMul(a[j], b[j]), SumTo(a, b, j - 1))
        ones == [k \in 1..n |-> FInt(1)]
        Sx == SumTo(x, ones, n)
        Sy == SumTo(y.values, ones, n)
        Sxx == SumTo(x, x, n)
        Sxy == SumTo(x, y.values, n)
    IN  IF y.dtype # "float64" \/ HasNaN(x) \/ HasNaN(y.values) \/ Len(x) = 0
               \/ Len(x) # Len(y.values)
        THEN [ok |-> FALSE, slope |-> NaN, intercept |-> NaN]
        ELSE LeastSquares(n, Sx, Sy, Sxx, Sxy, FSub(FMul(FInt(n), Sxx), FMul(Sx, Sx)))

\* LinearRegression.predict at one point q (raises when q is NaN: callers test).
ModelPredict(m, q) == FAdd(m.intercept, FMul(m.slope, q))

\* ------------------------------------------------ the shared model instance
\* self.model is one LinearRegression for all fits (line 25). Its state is
\* [fitted, slope, intercept]: fit stores the line it computed (coef_,
\* intercept_) and stores nothing when it raises; predict reads the stored
\* line and raises on an instance that was never fitted.
Unfitted == [fitted |-> FALSE, slope |-> NaN, intercept |-> NaN]

\* The instance self_model after self.model.fit(fit_x, fit_y).
FitInto(self_model, fit_x, fit_y) ==
    LET f == ModelFit(fit_x, fit_y)
    IN  IF f.ok THEN [fitted |-> TRUE, slope |-> f.slope, intercept |-> f.intercept]
        ELSE self_model

\* Mutant of FitAndPredict: an exception of fit is passed over and predict is
\* called on whatever the instance holds.
FitAndPredictStale(self_model, fit_x, fit_y, query_x) ==
    LET fitted == FitInto(self_model, fit_x, fit_y)
        ok == fitted.fitted /\ IsFinite(query_x)
    IN  [ok |-> ok, val |-> IF ok THEN ModelPredict(fitted, query_x) ELSE NaN,
         model |-> fitted]

\* The regression step on the instance: self.model.fit(fit_x, fit_y) followed
\* by self.model.predict(query_x) in one try block (lines 72-73, 157-158,
\* 232-233). ok is FALSE when one of the two raises, val is the prediction,
\* model is the instance afterwards.
FitAndPredict(self_model, fit_x, fit_y, query_x) ==
    LET fitted == FitInto(self_model, fit_x, fit_y)
        ok == ModelFit(fit_x, fit_y).ok /\ IsFinite(query_x)
    IN  [ok |-> ok, val |-> IF ok THEN ModelPredict(fitted, query_x) ELSE NaN,
         model |-> fitted]

\* ------------------------------------------------------------ IEEE doubles
\* The code computes in IEEE 754 doubles (numpy float64), rounding every
\* operation to the nearest double, ties to even. A natural number of any
\* size is the sequence of its digits to base 2^15, lowest first, without
\* leading zeros (0 is the empty sequence). A double is [sign, man, exp],
\* the number sign * man * 2^exp with sign 1 or -1 and man odd, of at most
\* 53 bits; zero is [0, <<>>, 0] (the sign of zero decides nothing here).
\* The exponent range is not modelled: no value here comes near its ends.
Base == 32768

RECURSIVE Trim(_)
\* Without leading zero digits.
Trim(a) == IF a = <<>> \/ a[Len(a)] # 0 THEN a ELSE Trim(SubSeq(a, 1, Len(a) - 1))

Digit(a, k) == IF k <= Len(a) THEN a[k] ELSE 0

RECURSIVE BigOfNat(_)
BigOfNat(n) == IF n = 0 THEN <<>> ELSE <<n % Base>> \o BigOfNat(n \div Base)

\* a + b
BigAdd(a, b) ==
    LET RECURSIVE AddFrom(_, _)
        AddFrom(k, carry) ==
            IF k > Len(a) /\ k > Len(b) THEN (IF carry = 0 THEN <<>> ELSE <<carry>>)
            ELSE <<(Digit(a, k) + Digit(b, k) + carry) % Base>>
                 \o AddFrom(k + 1, (Digit(a, k) + Digit(b, k) + carry) \div Base)
    IN  AddFrom(1, 0)

\* a - b for a >= b.
BigSub(a, b) ==
    LET RECURSIVE SubFrom(_, _)
        SubFrom(k, borrow) ==
            IF k > Len(a) THEN <<>>
            ELSE <<(a[k] - Digit(b, k) - borrow + Base) % Base>>
                 \o SubFrom(k + 1, IF a[k] - Digit(b, k) - borrow < 0 THEN 1 ELSE 0)
    IN  Trim(SubFrom(1, 0))

\* -1, 0 or 1 as a is less than, equal to or greater than b.
BigCmp(a, b) ==
    LET RECURSIVE CmpFrom(_)
        CmpFrom(k) ==
            IF k = 0 THEN 0
            ELSE IF a[k] < b[k] THEN -1
            ELSE IF a[k] > b[k] THEN 1
            ELSE CmpFrom(k - 1)
    IN  IF Len(a) < Len(b) THEN -1
        ELSE IF Len(a) > Len(b) THEN 1
        ELSE CmpFrom(Len(a))

\* a * m for one digit m.
BigTimes(a, m) ==
    LET RECURSIVE TimesFrom(_, _)
        TimesFrom(k, carry) ==
            IF k > Len(a) THEN (IF carry = 0 THEN <<>> ELSE <<carry>>)
            ELSE <<(a[k] * m + carry) % Base>> \o TimesFrom(k + 1, (a[k] * m + carry) \div Base)
    IN  IF m = 0 THEN <<>> ELSE TimesFrom(1, 0)

\* a * Base^n
BigShiftDigits(a, n) == IF a = <<>> THEN <<>> ELSE [k \in 1..n |-> 0] \o a

\* a * b
BigMul(a, b) ==
    LET RECURSIVE MulFrom(_)
        MulFrom(j) ==
            IF j > Len(b) THEN <<>>
            ELSE BigAdd(BigShiftDigits(BigTimes(a, b[j]), j - 1), MulFrom(j + 1))
    IN  MulFrom(1)

\* a * 2^n
BigShl(a, n) == BigShiftDigits(BigTimes(a, 2^(n % 15)), n \div 15)

\* a \div m for one digit m > 0.
BigOver(a, m) ==
    LET RECURSIVE OverFrom(_, _)
        OverFrom(k, rem) ==
            IF k = 0 THEN <<>>
            ELSE OverFrom(k - 1, (rem * Base + a[k]) % m) \o <<(rem * Base + a[k]) \div m>>
    IN  Trim(OverFrom(Len(a), 0))

\* a \div 2^n
BigShr(a, n) ==
    IF n \div 15 >= Len(a) THEN <<>>
    ELSE BigOver(SubSeq(a, n \div 15 + 1, Len(a)), 2^(n % 15))

\* Bit number n of a, the lowest being bit 0.
BigBit(a, n) == (Digit(a, n \div 15 + 1) \div 2^(n % 15)) % 2

\* The number of bits of a.
BigBits(a) ==
    LET RECURSIVE SmallBits(_)
        SmallBits(n) == IF n = 0 THEN 0 ELSE 1 + SmallBits(n \div 2)
    IN  IF a = <<>> THEN 0 ELSE 15 * (Len(a) - 1) + SmallBits(a[Len(a)])

\* [q, rem, k] of the long division of u by v, whose highest digit is at
\* least Base / 2, digit by digit from the highest. at = [q, rem, k] is the
\* division of the digits of u above number k, and c is digit number k of u
\* taken down to its remainder, c < v * Base. Guess(c), the quotient of the
\* two highest digits of c by the highest of v, is the digit wanted or
\* above it by 2 at most; Fitting(c, guess) is the digit wanted.
BigDivNormal(u, v) ==
    LET Guess(c) ==
            LET high == (Digit(c, Len(v) + 1) * Base + Digit(c, Len(v))) \div v[Len(v)]
            IN  IF high < Base THEN high ELSE Base - 1
        Fitting(c, guess) ==
            IF BigCmp(BigTimes(v, guess), c) <= 0 THEN guess
            ELSE IF BigCmp(BigTimes(v, guess - 1), c) <= 0 THEN guess - 1
            ELSE guess - 2
        Taken(at, c, d) ==
            [q |-> Trim(<<d>> \o at.q), rem |-> BigSub(c, BigTimes(v, d)), k |-> at.k - 1]
        DivStep(at, c) == Taken(at, c, Fitting(c, Guess(c)))
        RECURSIVE DivFrom(_)
        DivFrom(at) ==
            IF at.k = 0 THEN at
            ELSE DivFrom(DivStep(at, Trim(<<u[at.k]>> \o at.rem)))
    IN  DivFrom([q |-> <<>>, rem |-> <<>>, k |-> Len(u)])

\* [q, rem] of the division of a by b > 0. Both are shifted by s, as many
\* bits as make the highest digit of the divisor at least Base / 2, which
\* leaves the quotient as it is and shifts the remainder.
BigDiv(a, b) ==
    LET s == 15 * Len(b) - BigBits(b)
        Unshifted(d) == [q |-> d.q, rem |-> BigShr(d.rem, s)]
    IN  Unshifted(BigDivNormal(BigShl(a, s), BigShl(b, s)))

\* [root, rem, k] of the square root of a: root is the largest number whose
\* square is at most a, found digit by digit from the highest, and rem is
\* a - root^2. at = [root, rem, k] is the root of the digits of a above
\* number 2 * k, and c is the next two digits of a taken down to its
\* remainder: the next digit of the root is the largest d with
\* (2 * root * Base + d) * d <= c. Guess is not below it: for the first
\* digit it is the root of c < Base^2, found bit by bit from bit n, and
\* after it the quotient of the two highest digits of c \div 2 by the highest
\* digit of the root. Fitting counts down from the guess to the digit, a few
\* steps when a has an even number of digits of which the highest is at
\* least Base / 4, as "sqrt" below shifts it.
BigSqrt(a) ==
    LET RECURSIVE IntSqrt(_, _, _)
        IntSqrt(c, n, d) ==
            IF n < 0 THEN d
            ELSE IF (d + 2^n) * (d + 2^n) <= c THEN IntSqrt(c, n - 1, d + 2^n)
            ELSE IntSqrt(c, n - 1, d)
        Quotient(half, root) ==
            (Digit(half, Len(root) + 2) * Base + Digit(half, Len(root) + 1))
                \div root[Len(root)]
        Guess(c, root) ==
            IF root = <<>> THEN IntSqrt(Digit(c, 2) * Base + Digit(c, 1), 14, 0)
            ELSE IF Quotient(BigShr(c, 1), root) < Base THEN Quotient(BigShr(c, 1), root)
            ELSE Base - 1
        RECURSIVE Fitting(_, _, _)
        Fitting(c, twice, d) ==
            IF BigCmp(BigTimes(<<d>> \o twice, d), c) <= 0 THEN d
            ELSE Fitting(c, twice, d - 1)
        Taken(at, c, d) ==
            [root |-> Trim(<<d>> \o at.root),
             rem |-> BigSub(c, BigTimes(<<d>> \o BigTimes(at.root, 2), d)),
             k |-> at.k - 1]
        RECURSIVE SqrtFrom(_)
        SqrtFrom(at) ==
            IF at.k = 0 THEN at
            ELSE SqrtFrom(Taken(at,
                                Trim(<<Digit(a, 2 * at.k - 1), Digit(a, 2 * at.k)>> \o at.rem),
                                Fitting(Trim(<<Digit(a, 2 * at.k - 1), Digit(a, 2 * at.k)>> \o at.rem),
                                        BigTimes(at.root, 2),
                                        Guess(Trim(<<Digit(a, 2 * at.k - 1), Digit(a, 2 * at.k)>> \o at.rem),
                                              at.root))))
    IN  SqrtFrom([root |-> <<>>, rem |-> <<>>, k |-> (Len(a) + 1) \div 2])

DblZero == [sign |-> 0, man |-> <<>>, exp |-> 0]

DblOne == [sign |-> 1, man |-> <<1>>, exp |-> 0]

\* sign * man * 2^exp with man made odd: TrailingZeros(n) is the number of
\* zero bits below the lowest set bit of man # 0, from bit n on.
Odd(sign, man, exp) ==
    LET RECURSIVE TrailingZeros(_)
        TrailingZeros(n) == IF BigBit(man, n) = 1 THEN n ELSE TrailingZeros(n + 1)
        zeros == TrailingZeros(0)
    IN  IF man = <<>> THEN DblZero
        ELSE [sign |-> sign, man |-> BigShr(man, zeros), exp |-> exp + zeros]

\* The double of an integer below 2^31 in size.
DblOfInt(n) ==
    Odd(IF n < 0 THEN -1 ELSE 1, BigOfNat(IF n < 0 THEN 0 - n ELSE n), 0)

DblNeg(a) == [a EXCEPT !.sign = 0 - a.sign]

DblAbs(a) == [a EXCEPT !.sign = a.sign * a.sign]

\* 2**0.5 = 1.4142135623730951 = 6369051672525773 * 2^-52
Sqrt2 == [sign |-> 1, man |-> <<15309, 19710, 633, 181>>, exp |-> -52]

\* ------------------------------------------- the computations in doubles
\* A computation is a tuple by, its name and its operands, and DoubleOf(by)
\* is what it yields. The computations of the code are
\* <<"sum", train_y, ideal_func_y, x>> for lines 72-75,
\* <<"bound", train_y, ideal_func_y, x>> for lines 157-160 and
\* <<"deviation", x_test, y_test, ideal_func_y, x>> for lines 232-234. They
\* are made of the fit and the prediction of LinearRegression and of the
\* operations of IEEE arithmetic, which are computations as well and have
\* the names below.
\*
\* LinearRegression is code of scikit-learn, not of the repository. Its fit
\* centres the grid and the column on their means and hands them to
\* scipy.linalg.lstsq, which calls the LAPACK routine dgelsd. What dgelsd
\* does to one column is written out below from the reference LAPACK and
\* BLAS, operation by operation: a build whose kernels add in another order
\* or fuse a product with a sum can return other last places.
RECURSIVE DoubleOf(_)

\* The double nearest to sign * man * 2^exp.
Round53(sign, man, exp) == DoubleOf(<<"round", sign, man, exp>>)

\* a + b, rounded.
DblAdd(a, b) ==
    IF a.sign = 0 THEN b
    ELSE IF b.sign = 0 THEN a
    ELSE DoubleOf(<<"add", a, b>>)

\* a - b, rounded.
DblSub(a, b) == DblAdd(a, DblNeg(b))

\* a * b, rounded.
DblMul(a, b) ==
    IF a.sign = 0 \/ b.sign = 0 THEN DblZero
    ELSE DoubleOf(<<"mul", a, b>>)

\* a / b for b # 0, rounded.
DblDiv(a, b) == IF a.sign = 0 THEN DblZero ELSE DoubleOf(<<"div", a, b>>)

\* The square root of a >= 0, rounded.
DblSqrt(a) == IF a.sign = 0 THEN DblZero ELSE DoubleOf(<<"sqrt", a>>)

\* a < b
DblLt(a, b) == DblSub(a, b).sign = -1

\* a <= b
DblLe(a, b) == DblSub(a, b).sign # 1

\* The double of a finite float <<n, d>>: a cell as read_csv parses it.
DblOf(a) ==
    LET Over(n, d) == IF d = DblOne THEN n ELSE DblDiv(n, d)
    IN  Over(DblOfInt(a[1]), DblOfInt(a[2]))

\* The sum of the doubles s, added from left to right.
DblSum(s) == DoubleOf(<<"total", s>>)

\* The fits on the grid 0, 1, 2 of the columns with cells among 0, 1, 2, 9:
\* the values of the computation "fit" on them, kept in a table so that they
\* are computed once and not anew in every state.
FitsOnTheGrid ==
    LET cells == {<<0, 1>>, <<1, 1>>, <<2, 1>>, <<9, 1>>}
        Grid(x) == [y \in {<<a, b, c>> : a \in cells, b \in cells, c \in cells} |->
                       DoubleOf(<<"fit", x, y>>)]
    IN  Grid(<<<<0, 1>>, <<1, 1>>, <<2, 1>>>>)

\* [slope, intercept] of LinearRegression.fit(x, y) in doubles.
FitInDoubles(x, y) ==
    IF x = <<<<0, 1>>, <<1, 1>>, <<2, 1>>>> /\ y \in DOMAIN FitsOnTheGrid THEN FitsOnTheGrid[y]
    ELSE DoubleOf(<<"fit", x, y>>)

\* LinearRegression.predict at q in doubles: q * coef_ + intercept_.
PredictInDoubles(m, q) == DblAdd(DblMul(DblOf(q), m.slope), m.intercept)

DoubleOf(by) ==
    CASE by[1] = "round" ->
           \* RoundedShr(n) is man without its n lowest bits, rounded to
           \* nearest, ties to even; AnyBelow(n): some bit of man below bit
           \* number n is set.
           LET sign == by[2]
               man == by[3]
               exp == by[4]
               AnyBelow(n) ==
                   \/ \E k \in 1..Len(man) : k <= n \div 15 /\ man[k] # 0
                   \/ Digit(man, n \div 15 + 1) % 2^(n % 15) # 0
               RoundedShr(n) ==
                   IF BigBit(man, n - 1) = 1 /\ (AnyBelow(n - 1) \/ BigBit(man, n) = 1)
                   THEN BigAdd(BigShr(man, n), <<1>>)
                   ELSE BigShr(man, n)
               bits == BigBits(man)
           IN  IF bits <= 53 THEN Odd(sign, man, exp)
               ELSE Odd(sign, RoundedShr(bits - 53), exp + bits - 53)
      [] by[1] = "add" ->
           \* For a and b not zero. The exact sum is taken at the smaller
           \* exponent e, where ma and mb are the mantissas of a and b.
           LET a == by[2]
               b == by[3]
               e == IF a.exp < b.exp THEN a.exp ELSE b.exp
               Sum(ma, mb) ==
                   IF a.sign = b.sign THEN Round53(a.sign, BigAdd(ma, mb), e)
                   ELSE IF BigCmp(ma, mb) >= 0 THEN Round53(a.sign, BigSub(ma, mb), e)
                   ELSE Round53(b.sign, BigSub(mb, ma), e)
           IN  Sum(BigShl(a.man, a.exp - e), BigShl(b.man, b.exp - e))
      [] by[1] = "mul" ->
           \* For a and b not zero.
           Round53(by[2].sign * by[3].sign, BigMul(by[2].man, by[3].man),
                   by[2].exp + by[3].exp)
      [] by[1] = "div" ->
           \* For a and b not zero. The mantissa of a is shifted by s, which
           \* makes the quotient d.q of the mantissas 55 bits at least, and
           \* a last bit records whether the division left a rest.
           LET a == by[2]
               b == by[3]
               s == IF BigBits(a.man) > 55 + BigBits(b.man) THEN 0
                    ELSE 55 + BigBits(b.man) - BigBits(a.man)
               Quotient(d) ==
                   Round53(a.sign * b.sign,
                           BigAdd(BigTimes(d.q, 2), IF d.rem = <<>> THEN <<>> ELSE <<1>>),
                           a.exp - b.exp - s - 1)
           IN  Quotient(BigDiv(BigShl(a.man, s), b.man))
      [] by[1] = "sqrt" ->
           \* For a > 0. The mantissa is shifted by s to 119 or 120 bits at
           \* an even exponent, eight digits of which the highest is at
           \* least Base / 4; its root r.root has 60 bits, and a last bit
           \* records whether the root left a rest.
           LET a == by[2]
               least == IF BigBits(a.man) >= 119 THEN 0 ELSE 119 - BigBits(a.man)
               s == IF (a.exp - least) % 2 = 0 THEN least ELSE least + 1
               Root(r) ==
                   Round53(1, BigAdd(BigTimes(r.root, 2), IF r.rem = <<>> THEN <<>> ELSE <<1>>),
                           (a.exp - s) \div 2 - 1)
           IN  Root(BigSqrt(BigShl(a.man, s)))
      [] by[1] = "total" ->
           IF Len(by[2]) = 0 THEN DblZero
           ELSE DblAdd(DblSum(SubSeq(by[2], 1, Len(by[2]) - 1)), by[2][Len(by[2])])
      [] by[1] = "dnrm2" ->
           \* BLAS dnrm2: the square root of the sum of the squares of the
           \* column by[2].
           DblSqrt(DblSum([k \in 1..Len(by[2]) |-> DblMul(by[2][k], by[2][k])]))
      [] by[1] = "dlapy2" ->
           \* LAPACK dlapy2, the square root of x^2 + y^2 for x = by[2] and
           \* y = by[3]: w * sqrt(1 + (z / w)^2) for the larger w and the
           \* smaller z of the sizes of x and y.
           LET Scaled(w, ratio) ==
                   DblMul(w, DblSqrt(DblAdd(DblOne, DblMul(ratio, ratio))))
               Ordered(w, z) == IF z = DblZero THEN w ELSE Scaled(w, DblDiv(z, w))
               Sizes(x, y) == IF DblLt(x, y) THEN Ordered(y, x) ELSE Ordered(x, y)
           IN  Sizes(DblAbs(by[2]), DblAbs(by[3]))
      [] by[1] = "dlarfg" ->
           \* LAPACK dlarfg: [beta, tau, v] of the Householder reflection
           \* H = I - tau * v * v' that takes the column by[2] to
           \* (beta, 0, ..., 0). alpha is its first row and xnorm the norm
           \* of the rows below.
           \* With xnorm = 0 (a column of one row, or of zeros below the
           \* first) H is the identity. Else beta is the norm of the column
           \* with the sign opposite to alpha, and v is 1 above the rows
           \* below scaled by 1 / (alpha - beta).
           LET Scaled(below, scale) ==
                   [k \in 1..Len(below) |-> DblMul(below[k], scale)]
               Reflection(alpha, below, beta) ==
                   [beta |-> beta, tau |-> DblDiv(DblSub(beta, alpha), beta),
                    v |-> <<DblOne>> \o Scaled(below, DblDiv(DblOne, DblSub(alpha, beta)))]
               Opposite(alpha, norm) == IF alpha.sign = -1 THEN norm ELSE DblNeg(norm)
               Column(alpha, below, xnorm) ==
                   IF xnorm = DblZero
                   THEN [beta |-> alpha, tau |-> DblZero, v |-> <<DblOne>> \o below]
                   ELSE Reflection(alpha, below, Opposite(alpha, DoubleOf(<<"dlapy2", alpha, xnorm>>)))
               Rows(alpha, below) == Column(alpha, below, DoubleOf(<<"dnrm2", below>>))
           IN  Rows(by[2][1], SubSeq(by[2], 2, Len(by[2])))
      [] by[1] = "lstsq" ->
           \* scipy.linalg.lstsq for one column a = by[2] and one right-hand
           \* side b = by[3], the coefficient c that makes the sum of the
           \* squares of a * c - b least, as dgelsd finds it. dgeqr2: the reflection h of a. dorm2r/dlarf: h is
           \* applied to b, dgemv for b' * v and dger for b - tau * v * (b' * v),
           \* of which the first row is top. dgebrd and dormbr change
           \* nothing on one column. dlalsd: the solution is 0 when beta is
           \* 0 and else top scaled by dlascl, which multiplies by 1 / beta.
           LET Solved(h, top) ==
                   IF h.beta = DblZero THEN DblZero
                   ELSE DblMul(top, DblDiv(DblOne, h.beta))
               Applied(b, h) ==
                   Solved(h, DblAdd(b[1],
                                    DblMul(DblNeg(h.tau),
                                           DblSum([k \in 1..Len(b) |-> DblMul(b[k], h.v[k])]))))
           IN  Applied(by[3], DoubleOf(<<"dlarfg", by[2]>>))
      [] by[1] = "fit" ->
           \* LinearRegression.fit: x and y are centred on their means
           \* (numpy: the sum from left to right over the count), coef_ is
           \* the least squares solution on the centred columns and
           \* intercept_ is the mean of y minus the mean of x times coef_.
           LET Fitted(x_offset, y_offset, coef) ==
                   [slope |-> coef, intercept |-> DblSub(y_offset, DblMul(x_offset, coef))]
               Solved(a, b, x_offset, y_offset) ==
                   Fitted(x_offset, y_offset, DoubleOf(<<"lstsq", a, b>>))
               Centred(x, x_offset, y, y_offset) ==
                   Solved([k \in 1..Len(x) |-> DblSub(x[k], x_offset)],
                          [k \in 1..Len(y) |-> DblSub(y[k], y_offset)], x_offset, y_offset)
               Mean(values) == DblDiv(DblSum(values), DblOfInt(Len(values)))
               Read(x, y) == Centred(x, Mean(x), y, Mean(y))
           IN  Read([k \in 1..Len(by[2]) |-> DblOf(by[2][k])],
                    [k \in 1..Len(by[3]) |-> DblOf(by[3][k])])
      [] by[1] = "sum" ->
           \* Line 72, then lines 73-75 on the line fitted.
           LET Fitted(m) == DoubleOf(<<"squares", by[2], m, by[4]>>)
           IN  Fitted(FitInDoubles(by[4], by[3].values))
      [] by[1] = "squares" ->
           \* Lines 73-75 for the fitted line m: the sum over the rows with
           \* a training value of the squared difference between the value
           \* and the prediction.
           LET train_y == by[2]
               m == by[3]
               x == by[4]
               Squares(differences) ==
                   DblSum([j \in 1..Len(differences) |->
                              DblMul(differences[j], differences[j])])
               Differences(present) ==
                   Squares([j \in 1..Len(present) |->
                               DblSub(DblOf(train_y.values[present[j]]),
                                      PredictInDoubles(m, x[present[j]]))])
           IN  Differences(SelectSeq([k \in 1..Len(x) |-> k],
                                     LAMBDA k : IsFinite(train_y.values[k])))
      [] by[1] = "bound" ->
           \* Line 157, then lines 158-160 on the line fitted.
           LET Fitted(m) == DoubleOf(<<"largest", by[2], m, by[4]>>)
           IN  Fitted(FitInDoubles(by[4], by[3].values))
      [] by[1] = "largest" ->
           \* Lines 158-160 for the fitted line m and a training column
           \* whose first value is not missing: a missing value compares
           \* greater than nothing and is passed over. MaxFrom is Python's
           \* builtin max, from item k on with cur the largest so far.
           LET train_y == by[2]
               m == by[3]
               x == by[4]
               RECURSIVE MaxFrom(_, _, _)
               MaxFrom(deviations, k, cur) ==
                   IF k > Len(deviations) THEN cur
                   ELSE MaxFrom(deviations, k + 1,
                                IF DblLt(cur, deviations[k]) THEN deviations[k] ELSE cur)
               Deviations(present) ==
                   [j \in 1..Len(present) |->
                       DblAbs(DblSub(DblOf(train_y.values[present[j]]),
                                     PredictInDoubles(m, x[present[j]])))]
               Largest(deviations) == MaxFrom(deviations, 2, deviations[1])
           IN  Largest(Deviations(SelectSeq([k \in 1..Len(x) |-> k],
                                            LAMBDA k : IsFinite(train_y.values[k]))))
      [] by[1] = "deviation" ->
           \* Line 232, then lines 233-234 on the line fitted.
           LET Fitted(m) == DoubleOf(<<"distance", by[2], by[3], m>>)
           IN  Fitted(FitInDoubles(by[5], by[4].values))
      [] by[1] = "distance" ->
           \* Lines 233-234 for the fitted line m: abs(y_test - prediction).
           DblAbs(DblSub(DblOf(by[3]), PredictInDoubles(by[4], by[2])))

\* ------------------------------------------------------- computed doubles
\* A computed double is [val, by]: val is its exact value and by is the
\* computation that produced it, a sum, a bound or a deviation.
\* Two results with different exact values are apart by far more than the
\* rounding of their computation, and the exact values give their order.
\* Two results with the same exact value need not be the same double: then
\* the doubles are computed and compared.
Double(val, by) == [val |-> val, by |-> by]

\* The initial values of the loops are no result of a computation.
NoComputation == <<"none">>

\* a < b on computed doubles.
DLt(a, b) ==
    \/ FLt(a.val, b.val)
    \/ IsFinite(a.val) /\ a.val = b.val /\ a.by # b.by /\ DblLt(DoubleOf(a.by), DoubleOf(b.by))

\* a <= b on computed doubles.
DLe(a, b) ==
    \/ FLt(a.val, b.val)
    \/ /\ IsFinite(a.val) /\ a.val = b.val
       /\ a.by = b.by \/ DblLe(DoubleOf(a.by), DoubleOf(b.by))

\* The result d of a try block with the computation of its value.
Computed(d, by) == [ok |-> d.ok, val |-> d.val, by |-> IF d.ok THEN by ELSE NoComputation]

\* ------------------------------------------------------------------ tables
\* A column is [dtype, values]: dtype "float64" holds numbers and NaN,
\* dtype "object" is a column pandas could not parse as numbers.
\* A table (one CSV file, one data frame, one SQL table) is
\* [exists, x, names, cols]: the x column, the other column names in file
\* order and the columns by name. A header-only file has no rows.
NoTable == [exists |-> FALSE, x |-> <<>>, names |-> <<>>, cols |-> <<>>]

IsEmptyFrame(t) == Len(t.x) = 0

None == "None"

\* ------------------------------------------- IdealFunctionsManager, select
RECURSIVE SumSkipNa(_, _)
\* pandas Series.sum(): missing values are skipped, an empty sum is 0.
SumSkipNa(s, n) ==
    IF n = 0 THEN FInt(0)
    ELSE IF IsNaN(s[n]) THEN SumSkipNa(s, n - 1)
    ELSE FAdd(SumSkipNa(s, n - 1), s[n])

FSquare(a) == FMul(a, a)

\* Lines 73-76 for the fitted model m.
SquaredDeviationOf(train_y, m, x) ==
    IF ~m.ok \/ train_y.dtype # "float64"
    THEN [ok |-> FALSE, val |-> NaN]
    ELSE [ok |-> TRUE,
          val |-> SumSkipNa([k \in 1..Len(x) |->
                               FSquare(FSub(train_y.values[k], ModelPredict(m, x[k])))],
                            Len(x))]

\* Mutant of _calculate_squared_deviation: the square is left out and the
\* deviations are summed as they are.
_calculate_deviation_not_squared(train_y, ideal_func_y, x) ==
    IF ~ModelFit(x, ideal_func_y).ok \/ train_y.dtype # "float64"
    THEN [ok |-> FALSE, val |-> NaN, by |-> NoComputation]
    ELSE [ok |-> TRUE,
          val |-> SumSkipNa([k \in 1..Len(x) |->
                               FSub(train_y.values[k],
                                    ModelPredict(ModelFit(x, ideal_func_y), x[k]))],
                            Len(x)),
          by |-> <<"sum", train_y, ideal_func_y, x>>]

\* [ok, val, by]: ok = FALSE stands for the exception the method raises;
\* the returned double has the exact sum val and is computed by by.
_calculate_squared_deviation(train_y, ideal_func_y, x) ==
    Computed(SquaredDeviationOf(train_y, ModelFit(x, ideal_func_y), x),
             <<"sum", train_y, ideal_func_y, x>>)

\* Mutant of IsSmallerDeviation: <= in place of <, the last of equals wins.
IsSmallerOrEqualDeviation(sum_squared_deviation, min_sum_squared_deviation) ==
    DLe(sum_squared_deviation, min_sum_squared_deviation)

\* Line 147: the candidate replaces the best so far only when strictly
\* smaller; both are computed doubles.
IsSmallerDeviation(sum_squared_deviation, min_sum_squared_deviation) ==
    DLt(sum_squared_deviation, min_sum_squared_deviation)

\* Mutant of KeepSmaller: every evaluated column takes over, the last one wins.
KeepLatest(acc, ideal_col, dev) ==
    IF dev.ok THEN [min |-> dev.val, by |-> dev.by, name |-> ideal_col] ELSE acc

\* Mutant of KeepSmaller: a pair whose evaluation failed takes over the name.
KeepFailed(acc, ideal_col, dev) ==
    IF ~dev.ok THEN [min |-> acc.min, by |-> acc.by, name |-> ideal_col]
    ELSE IF IsSmallerDeviation(Double(dev.val, dev.by), Double(acc.min, acc.by))
    THEN [min |-> dev.val, by |-> dev.by, name |-> ideal_col]
    ELSE acc

\* Lines 143-150: a failed pair is skipped, a smaller sum takes over.
KeepSmaller(acc, ideal_col, dev) ==
    IF dev.ok /\ IsSmallerDeviation(Double(dev.val, dev.by), Double(acc.min, acc.by))
    THEN [min |-> dev.val, by |-> dev.by, name |-> ideal_col]
    ELSE acc

RECURSIVE BestIdealFrom(_, _, _, _, _)
\* The inner loop of get_ideal_functions from ideal column number j on, with
\* the running minimum and best name.
BestIdealFrom(train_y, ideal_data, x, j, acc) ==
    IF j > Len(ideal_data.names) THEN acc
    ELSE BestIdealFrom(train_y, ideal_data, x, j + 1,
            KeepSmaller(acc, ideal_data.names[j],
                _calculate_squared_deviation(train_y, ideal_data.cols[ideal_data.names[j]], x)))

BestIdeal(train_y, ideal_data, x) ==
    BestIdealFrom(train_y, ideal_data, x, 1, [min |-> Inf, by |-> NoComputation, name |-> None])

RECURSIVE PyMaxFrom(_, _, _)
\* Python's builtin max over a sequence: keeps the running item unless a later
\* one compares greater, so a NaN is kept when first and skipped otherwise.
PyMaxFrom(s, k, cur) ==
    IF k > Len(s) THEN cur
    ELSE PyMaxFrom(s, k + 1, IF FLt(cur, s[k]) THEN s[k] ELSE cur)

PyMax(s) == PyMaxFrom(s, 2, s[1])

\* Mutant of MaxDeviationOf: abs is left out.
MaxSignedDeviationOf(train_y, m, x) ==
    IF ~m.ok \/ train_y.dtype # "float64" THEN NaN
    ELSE PyMax([k \in 1..Len(x) |-> FSub(train_y.values[k], ModelPredict(m, x[k]))])

\* Lines 158-160 for the fitted model m.
MaxDeviationOf(train_y, m, x) ==
    IF ~m.ok \/ train_y.dtype # "float64" THEN NaN
    ELSE PyMax([k \in 1..Len(x) |-> FAbs(FSub(train_y.values[k], ModelPredict(m, x[k])))])

\* Lines 155-164: the bound of one training column for its chosen function,
\* a computed double; NaN when the try block raises (indexing the ideal
\* frame with None does).
MaxTrainDeviation(train_y, ideal_data, best_ideal_func_name, x) ==
    IF best_ideal_func_name = None THEN Double(NaN, NoComputation)
    ELSE Double(MaxDeviationOf(train_y, ModelFit(x, ideal_data.cols[best_ideal_func_name]), x),
                <<"bound", train_y, ideal_data.cols[best_ideal_func_name], x>>)

\* The selection loop: one <<train_col, ideal_col or None>> per training
\* column, in column order.
SelectionOf(train_data, ideal_data) ==
    [j \in 1..Len(train_data.names) |->
        <<train_data.names[j],
          BestIdeal(train_data.cols[train_data.names[j]], ideal_data, train_data.x).name>>]

\* The values of selection sel (a sequence of pairs) for training column t.
Chosen(sel, t) == sel[CHOOSE k \in 1..Len(sel) : sel[k][1] = t][2]

SelKeys(sel) == {sel[k][1] : k \in 1..Len(sel)}

\* training_data_max_deviations after the loop: the entries of this run are
\* written into the dictionary the object already holds.
DeviationsAfter(old, train_data, ideal_data, sel) ==
    [t \in (DOMAIN old) \cup SelKeys(sel) |->
        IF t \in SelKeys(sel)
        THEN MaxTrainDeviation(train_data.cols[t], ideal_data, Chosen(sel, t), train_data.x)
        ELSE old[t]]

\* ---------------------------------------------- IdealFunctionsManager, map
\* Mutant of IsAccepted: the factor 2 in place of 2**0.5.
IsAcceptedTimes2(deviation_test_point, max_train_deviation_for_func) ==
    FLe(deviation_test_point.val, FMul(max_train_deviation_for_func.val, FInt(2)))

\* Mutant of IsAccepted: accepted unless greater than the threshold, which a
\* NaN bound never says.
IsNotRejected(deviation_test_point, max_train_deviation_for_func) ==
    ~(/\ IsFinite(deviation_test_point.val)
      /\ IsFinite(max_train_deviation_for_func.val)
      /\ ~LeTimesSqrt2(deviation_test_point.val, max_train_deviation_for_func.val))

\* Both sides of line 237 are zero as rationals.
ZeroAgainstZero(deviation_test_point, max_train_deviation_for_func) ==
    deviation_test_point.val = FInt(0) /\ max_train_deviation_for_func.val = FInt(0)

\* Line 237: the acceptance criterion of one test point for one pair, on
\* the computed doubles of the deviation and of the bound. A rational
\* deviation never equals a rational bound times 2**0.5 unless both are
\* zero, and is apart from it by far more than the rounding: the exact
\* values decide. Where both are zero as rationals the doubles are computed
\* and compared as the line compares them.
IsAccepted(deviation_test_point, max_train_deviation_for_func) ==
    IF ZeroAgainstZero(deviation_test_point, max_train_deviation_for_func)
    THEN DblLe(DoubleOf(deviation_test_point.by),
               DblMul(DoubleOf(max_train_deviation_for_func.by), Sqrt2))
    ELSE LeTimesSqrt2(deviation_test_point.val, max_train_deviation_for_func.val)

\* Mutant of IsCloser: <= in place of <, the last of equals wins.
IsCloserOrEqual(deviation_test_point, min_deviation_test_point) ==
    DLe(deviation_test_point, min_deviation_test_point)

\* Line 238: an accepted pair replaces the best so far only when strictly
\* closer; both are computed doubles.
IsCloser(deviation_test_point, min_deviation_test_point) ==
    DLt(deviation_test_point, min_deviation_test_point)

\* Lines 230-234: [ok, val], the deviation of the test point from the fit of
\* one ideal column over the full ideal grid; ok = FALSE is the exception.
DeviationFrom(x_test, y_test, m) ==
    IF ~m.ok \/ ~IsFinite(x_test)
    THEN [ok |-> FALSE, val |-> NaN]
    ELSE [ok |-> TRUE, val |-> FAbs(FSub(y_test, ModelPredict(m, x_test)))]

\* [ok, val, by]: the deviation as a computed double.
DeviationTestPoint(x_test, y_test, ideal_data, ideal_func_name) ==
    Computed(DeviationFrom(x_test, y_test,
                           ModelFit(ideal_data.x, ideal_data.cols[ideal_func_name])),
             <<"deviation", x_test, y_test, ideal_data.cols[ideal_func_name], ideal_data.x>>)

\* Mutant of LookupRaises: an empty selection is rejected with an exception.
LookupOrEmptyRaises(ideal_data, sel) ==
    \/ Len(sel) = 0
    \/ \E k \in 1..Len(sel) : \A j \in 1..Len(ideal_data.names) : ideal_data.names[j] # sel[k][2]

\* Line 228 sits outside the try block: indexing the ideal frame with a name
\* it does not hold (None included) raises KeyError out of the method.
LookupRaises(ideal_data, sel) ==
    \E k \in 1..Len(sel) : \A j \in 1..Len(ideal_data.names) : ideal_data.names[j] # sel[k][2]

\* Lines 235-242: an accepted and strictly closer pair takes over.
KeepCloser(acc, pair, d, max_train_deviation_for_func) ==
    IF /\ d.ok
       /\ IsAccepted(Double(d.val, d.by), max_train_deviation_for_func)
       /\ IsCloser(Double(d.val, d.by), Double(acc.min, acc.by))
    THEN [min |-> d.val, by |-> d.by, ideal |-> pair[2], train |-> pair[1]]
    ELSE acc

RECURSIVE BestPairFrom(_, _, _, _, _, _, _)
\* The inner loop of map_test_data_to_ideal_functions over the selection from
\* pair number k on, for one test point.
BestPairFrom(x_test, y_test, ideal_data, sel, devs, k, acc) ==
    IF k > Len(sel) THEN acc
    ELSE BestPairFrom(x_test, y_test, ideal_data, sel, devs, k + 1,
            KeepCloser(acc, sel[k],
                       DeviationTestPoint(x_test, y_test, ideal_data, sel[k][2]),
                       devs[sel[k][1]]))

BestPair(x_test, y_test, ideal_data, sel, devs) ==
    BestPairFrom(x_test, y_test, ideal_data, sel, devs, 1,
                 [min |-> Inf, by |-> NoComputation, ideal |-> None, train |-> None])

\* Lines 248-255: the record of one test point, when its best name is set.
\* row is the position of the point in the test frame (the index iterrows
\* yields and the loop discards); it is kept for reference and never stored.
RecordOf(row, x_test, y_test, b) ==
    IF b.ideal # None
    THEN <<[x |-> x_test, y |-> y_test, delta_y |-> b.min, ideal_func |-> b.ideal,
            training_data_column |-> b.train, row |-> row]>>
    ELSE <<>>

RECURSIVE MappingFrom(_, _, _, _, _)
\* The loop over the test rows from row r on: one record per row whose best
\* name is set (lines 248-255), in row order.
MappingFrom(test_data, ideal_data, sel, devs, r) ==
    IF r > Len(test_data.x) THEN <<>>
    ELSE RecordOf(r, test_data.x[r], test_data.cols["y"].values[r],
                  BestPair(test_data.x[r], test_data.cols["y"].values[r],
                           ideal_data, sel, devs))
         \o MappingFrom(test_data, ideal_data, sel, devs, r + 1)

MappingResults(test_data, ideal_data, sel, devs) ==
    MappingFrom(test_data, ideal_data, sel, devs, 1)

\* results_df.drop('training_data_column', axis=1): the rows as stored.
Stored(mapping_results) ==
    [k \in 1..Len(mapping_results) |->
        [x |-> mapping_results[k].x, y |-> mapping_results[k].y,
         delta_y |-> mapping_results[k].delta_y,
         ideal_func |-> mapping_results[k].ideal_func]]

\* ------------------------------------------------------------------ inputs
\* Number of rows of the generated test files.
MaxTest == 2

XGrid == <<FInt(0), FInt(1), FInt(2)>>

Float64(values) == [dtype |-> "float64", values |-> values]

Col(a, b, c) == Float64(<<FInt(a), FInt(b), FInt(c)>>)

\* The constant column v with the cell of row p missing.
MissingAt(p, v) == Float64([k \in 1..Len(XGrid) |-> IF k = p THEN NaN ELSE FInt(v)])

\* A column of text.
ObjectColumn == [dtype |-> "object", values |-> [k \in 1..Len(XGrid) |-> NaN]]

TrainNames == <<"train_y1", "train_y2">>
IdealNames == <<"ideal_y1", "ideal_y2">>

Frame(x, names, c1, c2) ==
    [exists |-> TRUE, x |-> x, names |-> names,
     cols |-> [n \in {names[1], names[2]} |-> IF n = names[1] THEN c1 ELSE c2]]

\* Training columns: on a line, off every line, with a missing value, and
\* not numeric.
TrainFiles ==
    LET TrainColumns == {Col(0, 0, 0), Col(0, 1, 0), MissingAt(1, 0), ObjectColumn}
    IN  {Frame(XGrid, TrainNames, c1, c2) : c1 \in TrainColumns, c2 \in TrainColumns}

\* Ideal columns: a constant, three columns on no line, fitted by a
\* constant, by a rising and by a falling line, and one with a missing value.
IdealFiles ==
    LET IdealColumns == {Col(0, 0, 0), Col(0, 1, 0), Col(0, 0, 1), Col(1, 0, 0), MissingAt(1, 0)}
    IN  {Frame(XGrid, IdealNames, c1, c2) : c1 \in IdealColumns, c2 \in IdealColumns}

\* The core columns are the constant and the rising one.
CoreIdealFiles ==
    LET CoreIdealColumns == {Col(0, 0, 0), Col(0, 0, 1)}
    IN  {Frame(XGrid, IdealNames, c1, c2) : c1 \in CoreIdealColumns, c2 \in CoreIdealColumns}

TestFrame(xs, ys) ==
    [exists |-> TRUE, x |-> xs, names |-> <<"y">>,
     cols |-> [n \in {"y"} |-> Float64(ys)]]

\* The test file: MaxTest rows, or header only, or missing. Test points
\* <<x, y>>: on the grid (x = 0) with y 0 or 1, and off the grid (x = 3).
TestFiles ==
    LET TestPoints == {<<FInt(0), FInt(0)>>, <<FInt(0), FInt(1)>>, <<FInt(3), FInt(1)>>}
    IN  {TestFrame([r \in 1..MaxTest |-> p[r][1]], [r \in 1..MaxTest |-> p[r][2]]) :
            p \in [1..MaxTest -> TestPoints]}
        \cup {TestFrame(<<>>, <<>>), NoTable}

\* One test file with a point on the grid and a point off it.
SampleTestFile == TestFrame(<<FInt(0), FInt(3)>>, <<FInt(0), FInt(1)>>)

\* One training file and one ideal file, and their missing and header-only
\* forms.
SampleTrainFile == Frame(XGrid, TrainNames, Col(0, 0, 0), Col(0, 1, 0))
SampleIdealFile == Frame(XGrid, IdealNames, Col(0, 0, 0), Col(0, 0, 1))
HeaderOnly(f) ==
    [f EXCEPT !.x = <<>>,
              !.cols = [n \in DOMAIN f.cols |-> [f.cols[n] EXCEPT !.values = <<>>]]]

\* The data sets the application is started on: every training and ideal
\* file with the sample test file, every test file with the sample training
\* file and the core ideal files or the file of the tie, the file of the tie
\* with the training columns in the other order, the data set of the exact
\* fits, and the sample files with a file missing or header-only.
\* MapTieIdealFile: two ideal columns on no line whose fits meet at x = 3, so
\* that the pairs they are selected in tie for a test point there.
\* SwappedTrainFile: the sample training file with its columns in the other
\* order; with the file of the tie its pairs are selected in the other order.
\* EqualDoublesDataset: a data set whose fits are exact, so that results
\* with equal values are equal doubles: two constant ideal columns, a first
\* training column at the same distance from both and a second one next to
\* the second; a test point half way between the ideal columns and one on
\* the second.
\* OneRowDataset: files of one row, a grid of one value; the two ideal columns
\* are at the same distance from the second training column.
Datasets ==
    LET MapTieIdealFile == Frame(XGrid, IdealNames, Col(0, 0, 1), Col(1, 0, 1))
        SwappedTrainFile == Frame(XGrid, TrainNames, Col(0, 1, 0), Col(0, 0, 0))
        EqualDoublesDataset ==
            [train |-> Frame(XGrid, TrainNames, Col(0, 1, 2), Col(2, 2, 1)),
             ideal |-> Frame(XGrid, IdealNames, Col(0, 0, 0), Col(2, 2, 2)),
             test |-> TestFrame(<<FInt(0), FInt(3)>>, <<FInt(1), FInt(2)>>)]
        OneRowDataset ==
            [train |-> Frame(<<FInt(2)>>, TrainNames, Float64(<<FInt(1)>>), Float64(<<FInt(5)>>)),
             ideal |-> Frame(<<FInt(2)>>, IdealNames, Float64(<<FInt(1)>>), Float64(<<FInt(9)>>)),
             test |-> SampleTestFile]
    IN  [train : TrainFiles, ideal : IdealFiles, test : {SampleTestFile}]
        \cup [train : {SampleTrainFile}, ideal : CoreIdealFiles \cup {MapTieIdealFile},
              test : TestFiles]
        \cup {[train |-> SwappedTrainFile, ideal |-> MapTieIdealFile, test |-> SampleTestFile],
              EqualDoublesDataset, OneRowDataset}
        \cup [train : {SampleTrainFile, HeaderOnly(SampleTrainFile), NoTable},
              ideal : {SampleIdealFile, HeaderOnly(SampleIdealFile), NoTable},
              test : {SampleTestFile, NoTable}]

\* ------------------------------------------------------------------- state
VARIABLES
    csv,                            \* the files train.csv, ideal.csv, test.csv
    data_db,                        \* DataManager 'data': the three loaded tables
    results_db,                     \* DataManager 'results': table TestDataMapping
    ideal_functions_selection,      \* sequence of <<train_col, ideal_col or None>>
    ideal_functions_data,           \* per training column, the chosen ideal column
    training_data_max_deviations,   \* train_col -> float, a computed double
    model,                          \* self.model: the fitted line, if any
    last                            \* what the last service operation did

vars == <<csv, data_db, results_db, ideal_functions_selection,
          ideal_functions_data, training_data_max_deviations, model, last>>

NoCall ==
    [op |-> "none", loaded |-> FALSE, raised |-> FALSE, errors |-> 0,
     status_code |-> 0, mapping_results |-> <<>>, stored |-> FALSE]

\* ------------------------------------------------------------ DataManager
\* Mutant of TableOf: the test data are written to the table of the ideal
\* functions (the TEST branch of the table names is missing).
TableOfWithoutTest(kind) ==
    IF kind = "train" THEN "TrainingData" ELSE "IdealFunctions"

\* load_data: read_csv raises when the file is missing; otherwise the frame
\* replaces the table of its kind (to_sql, if_exists='replace').
TableOf(kind) ==
    IF kind = "train" THEN "TrainingData"
    ELSE IF kind = "ideal" THEN "IdealFunctions" ELSE "TestData"

\* The data database after load_data has been called for the kinds in order.
RECURSIVE LoadAll(_, _, _)
LoadAll(db, files, kinds) ==
    IF kinds = <<>> THEN db
    ELSE LET f == files[Head(kinds)]
         IN  IF ~f.exists THEN db
             ELSE IF IsEmptyFrame(f) THEN [db EXCEPT ![TableOf(Head(kinds))] = f]
             ELSE LoadAll([db EXCEPT ![TableOf(Head(kinds))] = f], files, Tail(kinds))

\* _load_data succeeds for a file that exists and has rows.
Loads(f) == f.exists /\ ~IsEmptyFrame(f)

\* Mutant of SaveData: the rows are appended to the table (if_exists='append').
SaveDataAppended(rows) == [exists |-> TRUE, rows |-> results_db.rows \o rows]

\* save_data: the frame replaces the table.
SaveData(rows) == [exists |-> TRUE, rows |-> rows]

\* ---------------------------------------------------- the data directory
\* The service opens data.sqlite and results.sqlite of the data directory and
\* drops nothing: on a new directory the databases have no tables, on a used
\* one they hold what an earlier process of the service left. The earlier
\* process is taken to have run select and map once on the files.
NoTables == [TrainingData |-> NoTable, IdealFunctions |-> NoTable, TestData |-> NoTable]

NoResults == [exists |-> FALSE, rows |-> <<>>]

EarlierData(c) ==
    LoadAll(LoadAll(LoadAll(NoTables, c, <<"train", "ideal">>), c,
                    <<"train", "test", "ideal">>), c, <<"test", "ideal">>)

EarlierResults(c) ==
    IF ~(Loads(c.train) /\ Loads(c.ideal) /\ Loads(c.test)) THEN NoResults
    ELSE LET sel == SelectionOf(c.train, c.ideal)
         IN  IF LookupRaises(c.ideal, sel) THEN NoResults
             ELSE LET mr == MappingResults(c.test, c.ideal, sel,
                                           DeviationsAfter(<<>>, c.train, c.ideal, sel))
                  IN  IF mr = <<>> THEN NoResults
                      ELSE [exists |-> TRUE, rows |-> Stored(mr)]

Init ==
    /\ csv \in Datasets
    /\ \E used \in BOOLEAN :
          /\ data_db = IF used THEN EarlierData(csv) ELSE NoTables
          /\ results_db = IF used THEN EarlierResults(csv) ELSE NoResults
    /\ ideal_functions_selection = <<>>
    /\ ideal_functions_data = <<>>
    /\ training_data_max_deviations = <<>>
    /\ model = Unfitted
    /\ last = NoCall

\* ------------------------------------------ the model instance in the loops
\* The loops above take the line of a pair from ModelFit: predict follows
\* fit in the same try block, so it reads the line that fit has just stored.
\* The operators below carry the instance through the same calls in the same
\* order and give its state after the operation.

RECURSIVE ModelAfterColumn(_, _, _, _)
\* The instance after the inner loop from ideal column number j on (line 72).
ModelAfterColumn(self_model, x, ideal_data, j) ==
    IF j > Len(ideal_data.names) THEN self_model
    ELSE ModelAfterColumn(
             FitAndPredict(self_model, x, ideal_data.cols[ideal_data.names[j]], x[1]).model,
             x, ideal_data, j + 1)

\* The instance after the bound of a training column: the lookup of the name
\* None raises before fit is called (line 157).
ModelAfterBound(self_model, x, ideal_data, best_ideal_func_name) ==
    IF best_ideal_func_name = None THEN self_model
    ELSE FitAndPredict(self_model, x, ideal_data.cols[best_ideal_func_name], x[1]).model

RECURSIVE ModelAfterSelect(_, _, _, _, _)
\* The instance after the outer loop from training column number k on.
ModelAfterSelect(self_model, x, ideal_data, sel, k) ==
    IF k > Len(sel) THEN self_model
    ELSE ModelAfterSelect(
             ModelAfterBound(ModelAfterColumn(self_model, x, ideal_data, 1), x, ideal_data,
                             sel[k][2]),
             x, ideal_data, sel, k + 1)

RECURSIVE ModelAfterPairs(_, _, _, _, _)
\* The instance after the pairs from number k on for one test row: the
\* lookup of a name the ideal table does not hold leaves the method (228).
ModelAfterPairs(self_model, ideal_data, sel, k, x_test) ==
    IF k > Len(sel) THEN self_model
    ELSE IF \A j \in 1..Len(ideal_data.names) : ideal_data.names[j] # sel[k][2]
    THEN self_model
    ELSE ModelAfterPairs(
             FitAndPredict(self_model, ideal_data.x, ideal_data.cols[sel[k][2]], x_test).model,
             ideal_data, sel, k + 1, x_test)

RECURSIVE ModelAfterRows(_, _, _, _, _)
\* The instance after the test rows from row r on.
ModelAfterRows(self_model, test_data, ideal_data, sel, r) ==
    IF r > Len(test_data.x) THEN self_model
    ELSE IF LookupRaises(ideal_data, sel)
    THEN ModelAfterPairs(self_model, ideal_data, sel, 1, test_data.x[r])
    ELSE ModelAfterRows(ModelAfterPairs(self_model, ideal_data, sel, 1, test_data.x[r]),
                        test_data, ideal_data, sel, r + 1)

\* The instance after map_test_data_to_ideal_functions: no fit when a table
\* could not be loaded.
ModelAfterMap(self_model, test_data, ideal_data, sel) ==
    IF ~(Loads(test_data) /\ Loads(ideal_data)) THEN self_model
    ELSE ModelAfterRows(self_model, test_data, ideal_data, sel, 1)

\* ------------------------------------------------- get_ideal_functions
\* ideal_functions_data: one column per training column, the copy of the
\* chosen ideal column, or a column of None when nothing was chosen.
SelectedData(ideal_data, sel) ==
    [k \in 1..Len(sel) |->
        [name |-> sel[k][1], is_none |-> sel[k][2] = None,
         values |-> IF sel[k][2] = None THEN <<>> ELSE ideal_data.cols[sel[k][2]].values]]

\* Line 168: a frame built from a dict whose values are all None cannot be
\* built (pandas: all scalar values and no index) and the ValueError leaves
\* get_ideal_functions.
FrameRaises(sel) == Len(sel) > 0 /\ \A k \in 1..Len(sel) : sel[k][2] = None

\* Mutant of SelectNotLoaded: the failed run also clears the stored selection.
SelectNotLoadedClears(db) ==
    /\ data_db' = db
    /\ last' = [NoCall EXCEPT !.op = "select", !.errors = 1, !.status_code = 200]
    /\ ideal_functions_selection' = <<>>
    /\ UNCHANGED <<csv, results_db, ideal_functions_data, training_data_max_deviations,
                   model>>

\* Lines 121-123: a table could not be loaded; logged, nothing computed, and
\* the endpoint answers 200.
SelectNotLoaded(db) ==
    /\ data_db' = db
    /\ last' = [NoCall EXCEPT !.op = "select", !.errors = 1, !.status_code = 200]
    /\ UNCHANGED <<csv, results_db, ideal_functions_selection,
                   ideal_functions_data, training_data_max_deviations, model>>

\* Lines 126-168 with the selection sel the loop has built.
SelectCommit(train_data, ideal_data, db, sel) ==
    /\ data_db' = db
    /\ training_data_max_deviations' =
           DeviationsAfter(training_data_max_deviations, train_data, ideal_data, sel)
    /\ ideal_functions_selection' = sel
    /\ model' = ModelAfterSelect(model, train_data.x, ideal_data, sel, 1)
    /\ ideal_functions_data' =
           IF FrameRaises(sel) THEN ideal_functions_data ELSE SelectedData(ideal_data, sel)
    /\ last' = [NoCall EXCEPT !.op = "select", !.loaded = TRUE,
                              !.raised = FrameRaises(sel),
                              !.errors = IF Loads(csv.test) THEN 0 ELSE 1,
                              !.status_code = IF FrameRaises(sel) THEN 500 ELSE 200]
    /\ UNCHANGED <<csv, results_db>>

\* POST /v1/ideal-functions/select: get_ideal_functions, then the response.
SelectIdealFunctions ==
    IF ~(Loads(csv.train) /\ Loads(csv.ideal))
    THEN SelectNotLoaded(LoadAll(data_db, csv, <<"train", "ideal">>))
    ELSE SelectCommit(csv.train, csv.ideal,
                      LoadAll(LoadAll(data_db, csv, <<"train", "ideal">>), csv,
                              <<"train", "test", "ideal">>),
                      SelectionOf(csv.train, csv.ideal))

\* ------------------------------------- map_test_data_to_ideal_functions
\* The endpoint counts the rows of TestDataMapping for its response (API
\* line 107): the read raises on a table that was never saved and when the
\* database cannot be read (read_ok = FALSE), and the endpoint answers 500.
StatusAfterMap(db, read_ok) == IF db.exists /\ read_ok THEN 200 ELSE 500

\* Lines 213-215: a table could not be loaded.
MapNotLoaded ==
    \E read_ok \in BOOLEAN :
        /\ results_db' = results_db
        /\ last' = [NoCall EXCEPT !.op = "map", !.errors = 1,
                                  !.status_code = StatusAfterMap(results_db, read_ok)]

\* Line 228: KeyError leaves the method at the first test row.
MapRaised ==
    /\ results_db' = results_db
    /\ last' = [NoCall EXCEPT !.op = "map", !.loaded = TRUE, !.raised = TRUE,
                              !.status_code = 500]

\* Lines 257-294 with the records mr the loop has built. Without records the
\* frame has no columns, drop raises inside the try block and nothing is
\* saved; with records the save may fail in the database (db_ok = FALSE).
\* Whatever the method did, the endpoint then reads the table for its
\* response (API line 107), and that read may fail on its own
\* (read_ok = FALSE).
MapCommit(mr) ==
    \E read_ok \in BOOLEAN :
        IF mr = <<>>
        THEN /\ results_db' = results_db
             /\ last' = [NoCall EXCEPT !.op = "map", !.loaded = TRUE, !.errors = 1,
                                       !.status_code = StatusAfterMap(results_db, read_ok)]
        ELSE \E db_ok \in BOOLEAN :
             /\ results_db' = IF db_ok THEN SaveData(Stored(mr)) ELSE results_db
             /\ last' = [NoCall EXCEPT !.op = "map", !.loaded = TRUE,
                                       !.errors = IF db_ok THEN 0 ELSE 1,
                                       !.stored = db_ok,
                                       !.mapping_results = mr,
                                       !.status_code =
                                           StatusAfterMap(IF db_ok THEN SaveData(Stored(mr))
                                                          ELSE results_db, read_ok)]

\* Mutant of MapTestData: the operation starts by clearing the stored bounds.
MapTestDataClearsBounds ==
    /\ data_db' = LoadAll(data_db, csv, <<"test", "ideal">>)
    /\ training_data_max_deviations' = <<>>
    /\ UNCHANGED <<csv, ideal_functions_selection, ideal_functions_data>>
    /\ model' = ModelAfterMap(model, csv.test, csv.ideal, ideal_functions_selection)
    /\ IF ~(Loads(csv.test) /\ Loads(csv.ideal)) THEN MapNotLoaded
       ELSE IF LookupRaises(csv.ideal, ideal_functions_selection)
       THEN MapRaised
       ELSE MapCommit(MappingResults(csv.test, csv.ideal, ideal_functions_selection,
                                     training_data_max_deviations))

\* POST /v1/test-data/map: map_test_data_to_ideal_functions, then the response.
MapTestData ==
    /\ data_db' = LoadAll(data_db, csv, <<"test", "ideal">>)
    /\ UNCHANGED <<csv, ideal_functions_selection, ideal_functions_data,
                   training_data_max_deviations>>
    /\ model' = ModelAfterMap(model, csv.test, csv.ideal, ideal_functions_selection)
    /\ IF ~(Loads(csv.test) /\ Loads(csv.ideal)) THEN MapNotLoaded
       ELSE IF LookupRaises(csv.ideal, ideal_functions_selection)
       THEN MapRaised
       ELSE MapCommit(MappingResults(csv.test, csv.ideal, ideal_functions_selection,
                                     training_data_max_deviations))

\* ------------------------------------------------------- the data endpoints
\* GET /v1/data/load-data: load_data replaces the table of the kind by its
\* file; 500 when the file is missing, 404 when it has no rows.
LoadData ==
    \E kind \in {"train", "ideal", "test"} :
        /\ data_db' = LoadAll(data_db, csv, <<kind>>)
        /\ last' = [NoCall EXCEPT !.op = "load", !.loaded = Loads(csv[kind]),
                                  !.raised = ~csv[kind].exists,
                                  !.status_code = IF ~csv[kind].exists THEN 500
                                                  ELSE IF IsEmptyFrame(csv[kind]) THEN 404
                                                  ELSE 200]
        /\ UNCHANGED <<csv, results_db, ideal_functions_selection, ideal_functions_data,
                       training_data_max_deviations, model>>

\* GET /v1/visualizations/all: get_all_functions_visualized loads the three
\* tables, training, test, ideal, and stops with a logged error at the first
\* that cannot be loaded; the endpoint then serves the page of the plot when
\* the data directory holds one (html), written now or by an earlier call.
GetAllDataVisualization ==
    \E html \in BOOLEAN :
        /\ data_db' = LoadAll(data_db, csv, <<"train", "test", "ideal">>)
        /\ last' = [NoCall EXCEPT !.op = "visualize",
                                  !.loaded = Loads(csv.train) /\ Loads(csv.test) /\ Loads(csv.ideal),
                                  !.errors = IF Loads(csv.train) /\ Loads(csv.test) /\ Loads(csv.ideal)
                                             THEN 0 ELSE 1,
                                  !.status_code = IF html THEN 200 ELSE 404]
        /\ UNCHANGED <<csv, results_db, ideal_functions_selection, ideal_functions_data,
                       training_data_max_deviations, model>>

Next == SelectIdealFunctions \/ MapTestData \/ LoadData \/ GetAllDataVisualization

Spec == Init /\ [][Next]_vars

\* ------------------------------------------------------ re-runs on new files
\* The CSV files are read anew by every operation (load_data), so they can be
\* replaced between two operations of the running service. The second
\* specification starts on a few data sets and lets one file, or the two
\* tables of the selection, be replaced once.

\* A table with any number of columns.
Table(x, names, columns) ==
    [exists |-> TRUE, x |-> x, names |-> names,
     cols |-> [n \in {names[j] : j \in 1..Len(names)} |->
                  columns[CHOOSE j \in 1..Len(names) : names[j] = n]]]

\* Training files and ideal files of the re-runs: the sample files, a
\* training file with a missing first value, one with a text column, the tie
\* file, the twin file, and an ideal file with a column that cannot be fitted.
RerunTrainFiles ==
    {SampleTrainFile,
     Frame(XGrid, TrainNames, Col(0, 1, 0), MissingAt(1, 0)),
     Frame(XGrid, TrainNames, Col(0, 0, 0), ObjectColumn)}

\* TieIdealFile: two ideal columns on no line whose fits mirror each other;
\* they tie as real numbers for a training column that is symmetric over the
\* grid. TwinIdealFile: two ideal columns with the same values under two
\* names; they tie for every training column, as doubles too.
RerunIdealFiles ==
    LET TieIdealFile == Frame(XGrid, IdealNames, Col(0, 0, 1), Col(1, 0, 0))
        TwinIdealFile == Frame(XGrid, IdealNames, Col(0, 0, 1), Col(0, 0, 1))
    IN  {SampleIdealFile, TieIdealFile, TwinIdealFile,
         Frame(XGrid, IdealNames, Col(0, 1, 0), Col(0, 0, 0)),
         Frame(XGrid, IdealNames, MissingAt(1, 0), Col(0, 0, 1))}

\* The data sets of the re-runs, with the scenario files: one training
\* column A, and an ideal pool whose first column has the values of A and
\* whose second column is far off; A lies on no line, or on a line, or the
\* files have one row.
RerunDatasets ==
    LET ScenarioTrainFiles ==
            {Table(XGrid, <<"A">>, <<Col(0, 1, 0)>>), Table(XGrid, <<"A">>, <<Col(0, 1, 2)>>),
             Table(XGrid, <<"A">>, <<Col(1, 1, 1)>>),
             Table(<<FInt(2)>>, <<"A">>, <<Float64(<<FInt(5)>>)>>)}
        ScenarioIdealFile(train) ==
            Table(train.x, <<"I1", "I2">>,
                  <<train.cols["A"], Float64([k \in 1..Len(train.x) |-> FInt(9)])>>)
    IN  [train : RerunTrainFiles, ideal : RerunIdealFiles, test : {SampleTestFile}]
        \cup {[train |-> t, ideal |-> ScenarioIdealFile(t), test |-> SampleTestFile] :
                 t \in ScenarioTrainFiles}

\* The data sets that can take the place of data set c. ShuffleColumns(f) is
\* the file f with its columns (all but x) in the reverse order,
\* RenameLastColumn(f, new) the file with its last column under the name
\* new, FarTestFile a test file whose points are accepted by no pair.
Replacements(c) ==
    LET ShuffleColumns(f) ==
            [f EXCEPT !.names = [j \in 1..Len(f.names) |-> f.names[Len(f.names) + 1 - j]]]
        RenameLastColumn(f, new) ==
            Table(f.x, [j \in 1..Len(f.names) |-> IF j = Len(f.names) THEN new ELSE f.names[j]],
                  [j \in 1..Len(f.names) |-> f.cols[f.names[j]]])
        FarTestFile == TestFrame(<<FInt(0), FInt(3)>>, <<FInt(9), FInt(9)>>)
    IN  {[c EXCEPT !.train = t] :
            t \in {ShuffleColumns(c.train), RenameLastColumn(c.train, "train_y3"),
                   HeaderOnly(c.train), NoTable}}
        \cup {[c EXCEPT !.ideal = i] :
                  i \in {ShuffleColumns(c.ideal), HeaderOnly(c.ideal), NoTable}}
        \cup {[c EXCEPT !.test = t] : t \in {FarTestFile, TestFrame(<<>>, <<>>), NoTable}}
        \cup {[c EXCEPT !.train = ShuffleColumns(c.train), !.ideal = ShuffleColumns(c.ideal)]}

\* The files of the data set are replaced on disk; the service is untouched.
ReplaceFiles ==
    /\ csv \in RerunDatasets
    /\ csv' \in Replacements(csv) \ RerunDatasets
    /\ UNCHANGED <<data_db, results_db, ideal_functions_selection, ideal_functions_data,
                   training_data_max_deviations, model, last>>

InitRerun ==
    /\ csv \in RerunDatasets
    /\ \E used \in BOOLEAN :
          /\ data_db = IF used THEN EarlierData(csv) ELSE NoTables
          /\ results_db = IF used THEN EarlierResults(csv) ELSE NoResults
    /\ ideal_functions_selection = <<>>
    /\ ideal_functions_data = <<>>
    /\ training_data_max_deviations = <<>>
    /\ model = Unfitted
    /\ last = NoCall

NextRerun ==
    SelectIdealFunctions \/ MapTestData \/ LoadData \/ GetAllDataVisualization \/ ReplaceFiles

SpecRerun == InitRerun /\ [][NextRerun]_vars

\* =================================================================== claims
\* The properties below are stated on the files and on the stored state with
\* their own definitions of deviation and acceptance, not with the operators
\* of the loops above. A table of values is bound once by a quantifier over
\* a one-element set.

TrainCol(t) == csv.train.cols[t]
IdealCol(i) == csv.ideal.cols[i]
TrainSet == {csv.train.names[j] : j \in 1..Len(csv.train.names)}
IdealSet == {csv.ideal.names[j] : j \in 1..Len(csv.ideal.names)}
IdealIndex(i) == CHOOSE j \in 1..Len(csv.ideal.names) : csv.ideal.names[j] = i

\* The (t, i) evaluation succeeds: the ideal column can be fitted and the
\* training column is numeric.
FitSucceeds(t, i) == ModelFit(csv.train.x, IdealCol(i)).ok /\ TrainCol(t).dtype = "float64"

\* The grid indices at which training column t has a value.
Present(t) == {k \in 1..Len(csv.train.x) : IsFinite(TrainCol(t).values[k])}

\* training[t][k] - (linear fit of ideal[i] at x[k])
ResidualAt(t, i, k) ==
    FSub(TrainCol(t).values[k],
         ModelPredict(ModelFit(csv.train.x, IdealCol(i)), csv.train.x[k]))

RECURSIVE SumOver(_, _, _)
SumOver(t, i, K) ==
    IF K = {} THEN FInt(0)
    ELSE LET k == CHOOSE e \in K : TRUE
         IN  FAdd(FSquare(ResidualAt(t, i, k)), SumOver(t, i, K \ {k}))

\* deviation(t, i): the sum of the squared residuals over the grid.
Deviation(t, i) == SumOver(t, i, Present(t))

\* deviation(t, i) for every pair of columns; NaN where the evaluation fails.
Deviations ==
    [t \in TrainSet, i \in IdealSet |-> IF FitSucceeds(t, i) THEN Deviation(t, i) ELSE NaN]

Selected == {k \in 1..Len(ideal_functions_selection) : ideal_functions_selection[k][2] # None}

\* C1: after get_ideal_functions, the ideal column selected for a training
\* column has the smallest total squared deviation among the ideal columns
\* that could be evaluated for it.
C1_SelectedMinimizesDeviation ==
    \A dev \in {Deviations} : \A k \in Selected :
        /\ ideal_functions_selection[k][2] \in IdealSet
        /\ IsFinite(dev[ideal_functions_selection[k][1], ideal_functions_selection[k][2]])
        /\ \A i \in IdealSet :
              IsFinite(dev[ideal_functions_selection[k][1], i])
                  => FLe(dev[ideal_functions_selection[k][1], ideal_functions_selection[k][2]],
                         dev[ideal_functions_selection[k][1], i])

\* C1 witness: the second ideal column was selected for a training column
\* because its deviation is strictly smaller than that of the first.
C1_Witness ==
    /\ last.op = "select"
    /\ \E k \in Selected :
          /\ ideal_functions_selection[k][2] = csv.ideal.names[2]
          /\ FitSucceeds(ideal_functions_selection[k][1], csv.ideal.names[1])
          /\ FLt(Deviation(ideal_functions_selection[k][1], csv.ideal.names[2]),
                 Deviation(ideal_functions_selection[k][1], csv.ideal.names[1]))

\* C5 (as stated): among ideal columns with the same minimal deviation the
\* first in the column order of the ideal table is selected: no column
\* before the selected one reaches the deviation of the selected one.
C5_FirstOfEqualDeviationsSelected ==
    \A dev \in {Deviations} : \A k \in Selected :
        \A i \in IdealSet :
            (IsFinite(dev[ideal_functions_selection[k][1], i])
                /\ IdealIndex(i) < IdealIndex(ideal_functions_selection[k][2]))
            => dev[ideal_functions_selection[k][1], i]
                   # dev[ideal_functions_selection[k][1], ideal_functions_selection[k][2]]

\* The results of computations by_a and by_b, of exact values a and b, are
\* the same double.
SameAsDouble(a, b, by_a, by_b) ==
    /\ a = b
    /\ by_a = by_b \/ DoubleOf(by_a) = DoubleOf(by_b)

\* The computation of deviation(t, i) at lines 73-75.
SumBy(t, i) == <<"sum", TrainCol(t), IdealCol(i), csv.train.x>>

\* C5 (amended): among ideal columns whose computed deviations are the same
\* double the first in the column order of the ideal table is selected: no
\* column before the selected one has the computed deviation of the selected
\* one.
C5_FirstOfEqualDoublesSelected ==
    \A dev \in {Deviations} : \A k \in Selected :
        \A i \in IdealSet :
            (IsFinite(dev[ideal_functions_selection[k][1], i])
                /\ IdealIndex(i) < IdealIndex(ideal_functions_selection[k][2]))
            => ~SameAsDouble(dev[ideal_functions_selection[k][1], i],
                             dev[ideal_functions_selection[k][1], ideal_functions_selection[k][2]],
                             SumBy(ideal_functions_selection[k][1], i),
                             SumBy(ideal_functions_selection[k][1],
                                   ideal_functions_selection[k][2]))

\* C5 witness: two different ideal columns have the same computed deviation,
\* the minimal one, and the first of them is the selected one.
C5_Witness ==
    /\ last.op = "select"
    /\ \E k \in Selected :
          LET t == ideal_functions_selection[k][1]
          IN  /\ ideal_functions_selection[k][2] = csv.ideal.names[1]
              /\ FitSucceeds(t, csv.ideal.names[2])
              /\ SameAsDouble(Deviation(t, csv.ideal.names[1]),
                              Deviation(t, csv.ideal.names[2]),
                              SumBy(t, csv.ideal.names[1]), SumBy(t, csv.ideal.names[2]))
              /\ IdealCol(csv.ideal.names[1]) # IdealCol(csv.ideal.names[2])

\* The bound of training column t: the exact value of the stored double.
Bound(t) == training_data_max_deviations[t].val

\* |training[t][k] - fit of the selected ideal column at x[k]| at the grid
\* indices where training column t has a value.
SelectedResiduals(t) ==
    [k \in Present(t) |-> FAbs(ResidualAt(t, Chosen(ideal_functions_selection, t), k))]

\* C10: a defined bound of a training column is the largest absolute residual
\* of the column against the fit of its selected ideal column over the grid
\* (over the grid indices at which the column has a value), and is >= 0.
C10_BoundIsMaxAbsoluteResidual ==
    \A t \in DOMAIN training_data_max_deviations :
        IsFinite(Bound(t)) =>
            /\ t \in SelKeys(ideal_functions_selection)
            /\ Chosen(ideal_functions_selection, t) \in IdealSet
            /\ FLe(FInt(0), Bound(t))
            /\ \A res \in {SelectedResiduals(t)} :
                  /\ \A k \in DOMAIN res : FLe(res[k], Bound(t))
                  /\ \E k \in DOMAIN res : res[k] = Bound(t)

\* C10 witness: a positive bound that comes from a negative residual at a
\* grid index other than the first.
C10_Witness ==
    /\ last.op = "select"
    /\ \E t \in DOMAIN training_data_max_deviations :
          /\ IsFinite(Bound(t)) /\ FLt(FInt(0), Bound(t))
          /\ \E k \in Present(t) \ {1} :
                /\ FLt(ResidualAt(t, Chosen(ideal_functions_selection, t), k), FInt(0))
                /\ FAbs(ResidualAt(t, Chosen(ideal_functions_selection, t), k)) = Bound(t)
          /\ FLt(FAbs(ResidualAt(t, Chosen(ideal_functions_selection, t), 1)), Bound(t))

EntriesFor(t) == {k \in 1..Len(ideal_functions_selection) : ideal_functions_selection[k][1] = t}

\* C7: after get_ideal_functions has run its loops, a training column whose
\* every fit failed has no entry in the selection and none in the bounds, and
\* every other training column has exactly one entry in the selection.
C7_FailedColumnsAbsent ==
    (last.op = "select" /\ last.loaded) =>
        \A t \in TrainSet :
            IF \E i \in IdealSet : FitSucceeds(t, i)
            THEN Cardinality(EntriesFor(t)) = 1
            ELSE EntriesFor(t) = {} /\ t \notin DOMAIN training_data_max_deviations

\* ----------------------------------------------------------- claims, map
TestRows == 1..Len(csv.test.x)
TestX(r) == csv.test.x[r]
TestY(r) == csv.test.cols["y"].values[r]
Pairs == 1..Len(ideal_functions_selection)

\* Pair k can be evaluated: its ideal function is a column of the ideal
\* table whose fit succeeds.
PairUsable(k) ==
    /\ ideal_functions_selection[k][2] \in IdealSet
    /\ ModelFit(csv.ideal.x, IdealCol(ideal_functions_selection[k][2])).ok

\* d = |y0 - fit of the pair's ideal column at x0|
PairDeviation(r, k) ==
    FAbs(FSub(TestY(r),
              ModelPredict(ModelFit(csv.ideal.x, IdealCol(ideal_functions_selection[k][2])),
                           TestX(r))))

\* d for every test observation and pair; NaN where the pair is not usable.
PairDeviations ==
    [r \in TestRows, k \in Pairs |-> IF PairUsable(k) THEN PairDeviation(r, k) ELSE NaN]

\* The computation of the deviation of test observation r from pair k at
\* lines 232-234.
DeviationBy(r, k) ==
    <<"deviation", TestX(r), TestY(r), IdealCol(ideal_functions_selection[k][2]), csv.ideal.x>>

\* The deviation d of test observation r from pair k and the bound of the
\* pair are both zero as rationals, and the double of the deviation is
\* above the double of the bound times 2**0.5.
RoundedAbove(d, k, r) ==
    /\ d = FInt(0)
    /\ Bound(ideal_functions_selection[k][1]) = FInt(0)
    /\ ~DblLe(DoubleOf(DeviationBy(r, k)),
              DblMul(DoubleOf(training_data_max_deviations[ideal_functions_selection[k][1]].by),
                     Sqrt2))

\* d <= bounds[train_col] * sqrt(2) on the computed doubles, never with an
\* undefined bound.
Within(d, k, r) ==
    /\ IsFinite(d)
    /\ IsFinite(Bound(ideal_functions_selection[k][1]))
    /\ LeTimesSqrt2(d, Bound(ideal_functions_selection[k][1]))
    /\ ~RoundedAbove(d, k, r)

\* The accepted pairs of test observation r, given the table pd of deviations.
AcceptedPairs(pd, r) == {k \in Pairs : Within(pd[r, k], k, r)}

Records == last.mapping_results
RecordSet == {Records[a] : a \in 1..Len(Records)}

\* The map operation loaded its tables and ran its loop.
Mapped == last.op = "map" /\ last.loaded

\* C2: every mapping record has d <= bounds[train_col] * sqrt(2) for the
\* training column it was assigned to, d being the deviation of the test
\* point from the fit of the assigned ideal function.
C2_RecordsWithinBound ==
    Mapped =>
        \A pd \in {PairDeviations} : \A m \in RecordSet :
            /\ m.training_data_column \in SelKeys(ideal_functions_selection)
            /\ m.ideal_func = Chosen(ideal_functions_selection, m.training_data_column)
            /\ \E k \in Pairs :
                  /\ ideal_functions_selection[k][1] = m.training_data_column
                  /\ m.delta_y = pd[m.row, k]
            /\ LeTimesSqrt2(m.delta_y, Bound(m.training_data_column))

\* C2 witness: a record whose deviation equals bound * sqrt(2) exactly: the
\* boundary is accepted.
C2_Witness ==
    /\ Mapped
    /\ \E m \in RecordSet :
          m.delta_y[1] * m.delta_y[1] * Bound(m.training_data_column)[2]
                                      * Bound(m.training_data_column)[2]
              = 2 * Bound(m.training_data_column)[1] * Bound(m.training_data_column)[1]
                  * m.delta_y[2] * m.delta_y[2]

\* C3: the records of one map operation are, in test-table order, one per
\* test observation that has an accepted pair, with the x and y of that
\* observation, and none for the other observations.
C3_OneRecordPerAcceptedObservation ==
    Mapped =>
        \A pd \in {PairDeviations} :
            /\ Len(Records) = Cardinality({r \in TestRows : AcceptedPairs(pd, r) # {}})
            /\ \A a \in 1..Len(Records) :
                  /\ Records[a].row \in TestRows
                  /\ AcceptedPairs(pd, Records[a].row) # {}
                  /\ Records[a].x = TestX(Records[a].row)
                  /\ Records[a].y = TestY(Records[a].row)
                  /\ \A b \in 1..Len(Records) : a < b => Records[a].row < Records[b].row

\* C4 (as stated): the record of a test observation carries the smallest
\* deviation among its accepted pairs and the ideal function and training
\* column of the first pair, in selection order, that has this deviation.
C4_RecordIsFirstClosestAcceptedPair ==
    Mapped =>
        \A pd \in {PairDeviations} : \A m \in RecordSet :
            \E k \in AcceptedPairs(pd, m.row) :
                /\ m.delta_y = pd[m.row, k]
                /\ m.ideal_func = ideal_functions_selection[k][2]
                /\ m.training_data_column = ideal_functions_selection[k][1]
                /\ \A j \in AcceptedPairs(pd, m.row) :
                      /\ FLe(pd[m.row, k], pd[m.row, j])
                      /\ j < k => pd[m.row, j] # pd[m.row, k]

\* C4 (amended): the record of a test observation carries the smallest
\* deviation among its accepted pairs and the ideal function and training
\* column of the first pair, in selection order, whose computed deviation is
\* that double.
C4_RecordIsFirstClosestAcceptedDouble ==
    Mapped =>
        \A pd \in {PairDeviations} : \A m \in RecordSet :
            \E k \in AcceptedPairs(pd, m.row) :
                /\ m.delta_y = pd[m.row, k]
                /\ m.ideal_func = ideal_functions_selection[k][2]
                /\ m.training_data_column = ideal_functions_selection[k][1]
                /\ \A j \in AcceptedPairs(pd, m.row) :
                      /\ FLe(pd[m.row, k], pd[m.row, j])
                      /\ j < k => ~SameAsDouble(pd[m.row, j], pd[m.row, k],
                                                DeviationBy(m.row, j), DeviationBy(m.row, k))

\* C4 witness: one record won by the second pair with a strictly smaller
\* deviation than the accepted first pair, and one record where two accepted
\* pairs with different ideal functions have the same computed deviation and
\* the first is kept.
C4_Witness ==
    /\ Mapped
    /\ \E pd \in {PairDeviations} :
          /\ \E m \in RecordSet :
                /\ AcceptedPairs(pd, m.row) = {1, 2}
                /\ m.training_data_column = ideal_functions_selection[2][1]
                /\ FLt(pd[m.row, 2], pd[m.row, 1])
          /\ \E m \in RecordSet :
                /\ AcceptedPairs(pd, m.row) = {1, 2}
                /\ SameAsDouble(pd[m.row, 1], pd[m.row, 2],
                                DeviationBy(m.row, 1), DeviationBy(m.row, 2))
                /\ ideal_functions_selection[1][2] # ideal_functions_selection[2][2]
                /\ m.training_data_column = ideal_functions_selection[1][1]

\* C6: a map operation on an empty stored selection reports an error, does
\* not raise, produces no mapping record and stores none: the results
\* database is left as the operation found it.
C6_MapBeforeSelectFailsFast ==
    [][(last'.op = "map" /\ ideal_functions_selection = <<>>) =>
          /\ last'.errors >= 1
          /\ ~last'.raised
          /\ last'.mapping_results = <<>>
          /\ ~last'.stored
          /\ results_db' = results_db]_vars

\* C6 witness: the map operation loaded its tables, with test observations,
\* and found the selection empty.
C6_Witness ==
    /\ Mapped
    /\ ideal_functions_selection = <<>>
    /\ TestRows # {}

\* C8: a map operation that loaded its tables does not raise, whatever the
\* selection holds: a pair that cannot be evaluated contributes no candidate,
\* and every observation with an accepted pair still gets its record.
C8_MapRecoversFromUnusablePairs ==
    Mapped =>
        /\ ~last.raised
        /\ \A pd \in {PairDeviations} : \A r \in TestRows :
              AcceptedPairs(pd, r) # {} => \E m \in RecordSet : m.row = r

\* C9: no mapping record is assigned to a training column whose bound is NaN.
C9_NoRecordOnNaNBound ==
    Mapped =>
        \A m \in RecordSet : ~IsNaN(Bound(m.training_data_column))

\* C9 witness: a selected pair with a NaN bound is closer to a test
\* observation than the pair its record was assigned to.
C9_Witness ==
    /\ Mapped
    /\ \E m \in RecordSet : \E k \in Pairs :
          /\ PairUsable(k)
          /\ IsNaN(Bound(ideal_functions_selection[k][1]))
          /\ FLt(PairDeviation(m.row, k), m.delta_y)

\* ------------------------------------------------- claims, error handling
\* C11: when the test table has no observation (a test file with a header
\* and no row), the map operation produces no mapping record and reports no
\* error.
C11_EmptyTestTableIsNoError ==
    (last.op = "map" /\ csv.test.exists /\ IsEmptyFrame(csv.test) /\ Loads(csv.ideal)) =>
        /\ last.mapping_results = <<>>
        /\ ~last.raised
        /\ last.errors = 0

\* The map operation ran its loop and returned, and its save did not fail.
MapReturned ==
    /\ Mapped
    /\ ~last.raised
    /\ (last.stored \/ last.mapping_results = <<>>)

\* C12: after a map operation has returned, table TestDataMapping holds
\* exactly the records that operation produced, none of an earlier
\* operation; with no test point matched it holds no record.
C12_PersistedIsLastInvocationOnly ==
    MapReturned => results_db.rows = Stored(last.mapping_results)

\* A get_ideal_functions run that loaded its tables and returned normally.
SelectSucceeded == last.op = "select" /\ last.loaded /\ ~last.raised

\* C13: after a successful get_ideal_functions run the selection and the
\* bounds have entries for the training columns of the tables of this run
\* and for no other column: nothing of an earlier run survives.
C13_SelectOverwritesEarlierRun ==
    (SelectSucceeded /\ data_db.TrainingData = csv.train) =>
        /\ SelKeys(ideal_functions_selection) = TrainSet
        /\ DOMAIN training_data_max_deviations = TrainSet

\* The selection and the bounds that one run of get_ideal_functions computes
\* on the current files, starting from nothing.
NewRunSelection == SelectionOf(csv.train, csv.ideal)
NewRunBounds == DeviationsAfter(<<>>, csv.train, csv.ideal, NewRunSelection)

\* C14: in every step the stored selection and bounds either stay those of
\* the previous run or become, both and entirely, those of the new run;
\* never a mixture of the two.
C14_SelectionCommittedWholly ==
    [][\/ /\ ideal_functions_selection' = ideal_functions_selection
          /\ training_data_max_deviations' = training_data_max_deviations
       \/ /\ ideal_functions_selection' = NewRunSelection
          /\ training_data_max_deviations' = NewRunBounds]_vars

\* C14, where no bound of a column outside the current training table is
\* stored: the part of C14 that does not depend on the merge of C13.
C14_HoldsWithoutStaleBound ==
    [][(DOMAIN training_data_max_deviations \subseteq TrainSet)
       => \/ /\ ideal_functions_selection' = ideal_functions_selection
             /\ training_data_max_deviations' = training_data_max_deviations
          \/ /\ ideal_functions_selection' = NewRunSelection
             /\ training_data_max_deviations' = NewRunBounds]_vars

\* C15: a select or map operation that cannot load a table it needs leaves
\* the stored selection, the bounds and the selected-function data exactly as
\* they were before the operation.
C15_LoadFailureLeavesStateIntact ==
    [][(last'.op \in {"select", "map"} /\ ~last'.loaded /\ csv' = csv)
       => /\ ideal_functions_selection' = ideal_functions_selection
          /\ training_data_max_deviations' = training_data_max_deviations
          /\ ideal_functions_data' = ideal_functions_data]_vars

\* C15 witness: get_ideal_functions could not load its tables after an
\* earlier run had stored a selection, bounds and data, and they are there.
C15_Witness ==
    /\ last.op = "select"
    /\ ~last.loaded
    /\ ~Loads(csv.train)
    /\ Selected # {}
    /\ ideal_functions_data # <<>>
    /\ \E t \in DOMAIN training_data_max_deviations : IsFinite(Bound(t))

\* C16: a select or map operation that cannot load a table it needs ends in
\* an error outcome for its caller, never in a success response.
C16_LoadFailureReachesCaller ==
    (last.op \in {"select", "map"} /\ ~last.loaded) => last.status_code # 200

\* C17: a map operation whose records could not be written to storage ends
\* in an error outcome for its caller.
C17_StoreFailureReachesCaller ==
    (Mapped /\ ~last.raised /\ last.mapping_results # <<>> /\ ~last.stored)
        => last.status_code # 200

\* ----------------------------------------------------- claims, relations
\* Table g holds the columns of table f, in the same or in another order.
IsShuffleOf(f, g) ==
    /\ f.exists /\ g.exists
    /\ f.x = g.x
    /\ Len(f.names) = Len(g.names)
    /\ f.cols = g.cols

\* The last operation was a successful get_ideal_functions run, and the files
\* now hold the columns of the tables of that run, possibly shuffled.
SelectedOnShuffle ==
    /\ SelectSucceeded
    /\ IsShuffleOf(data_db.TrainingData, csv.train)
    /\ IsShuffleOf(data_db.IdealFunctions, csv.ideal)

\* The step is a get_ideal_functions run that loads its tables.
SelectStep == last'.op = "select" /\ last'.loaded /\ csv' = csv

\* C18 (as stated): a re-run of the selection on the same tables with the
\* columns in a shuffled order chooses the same ideal column name for every
\* training column.
C18_ShuffleKeepsSelectedNames ==
    [][(SelectedOnShuffle /\ SelectStep)
       => \A t \in TrainSet :
              Chosen(ideal_functions_selection', t) = Chosen(ideal_functions_selection, t)]_vars

\* C18 (amended): a re-run of the selection on the same tables with the
\* columns in a shuffled order chooses for every training column an ideal
\* column of the same total squared deviation; the name is the same unless
\* several ideal columns tie on that deviation.
C18_ShuffleKeepsMinimalDeviation ==
    [][(SelectedOnShuffle /\ SelectStep)
       => \A dev \in {Deviations} : \A t \in TrainSet :
              \/ Chosen(ideal_functions_selection', t) = Chosen(ideal_functions_selection, t)
              \/ /\ Chosen(ideal_functions_selection', t) \in IdealSet
                 /\ Chosen(ideal_functions_selection, t) \in IdealSet
                 /\ IsFinite(dev[t, Chosen(ideal_functions_selection, t)])
                 /\ dev[t, Chosen(ideal_functions_selection', t)]
                        = dev[t, Chosen(ideal_functions_selection, t)]]_vars

\* C18 witness: a selection made on the ideal columns in the other order is
\* stored, the files hold the columns shuffled, and the ideal columns
\* differ in deviation for some training column.
C18_Witness ==
    /\ SelectedOnShuffle
    /\ csv.ideal.names # data_db.IdealFunctions.names
    /\ \E k \in Selected : \E i \in IdealSet :
          /\ FitSucceeds(ideal_functions_selection[k][1], i)
          /\ FLt(Deviation(ideal_functions_selection[k][1], ideal_functions_selection[k][2]),
                 Deviation(ideal_functions_selection[k][1], i))

\* The last operation was a map operation on the test and ideal files as
\* they are now, and the step is a map operation again.
MapTwiceInARow ==
    /\ Mapped
    /\ data_db.TestData = csv.test
    /\ data_db.IdealFunctions = csv.ideal
    /\ last'.op = "map" /\ last'.loaded /\ csv' = csv

\* C19: two map operations in a row on the same test table, ideal table,
\* selection and bounds produce the same mapping records, and the same
\* stored rows when both store.
C19_MapIsIdempotent ==
    [][MapTwiceInARow
       => /\ last'.mapping_results = last.mapping_results
          /\ last'.raised = last.raised
          /\ (last.stored /\ last'.stored) => results_db' = results_db]_vars

\* C19 witness: a map operation built records and could not store them, and
\* the table holds the very rows of these records, stored by the map
\* operation before it.
C19_Witness ==
    /\ Mapped
    /\ last.mapping_results # <<>>
    /\ ~last.stored
    /\ results_db.exists
    /\ results_db.rows = Stored(last.mapping_results)

\* Scenario A in the files: one training column; two ideal columns, the
\* first with exactly the values of the training column, the second far off
\* (more than 3 away at every grid point).
ScenarioA ==
    /\ Loads(csv.train) /\ Loads(csv.ideal)
    /\ Len(csv.train.names) = 1
    /\ Len(csv.ideal.names) = 2
    /\ TrainCol(csv.train.names[1]).dtype = "float64"
    /\ ~HasNaN(TrainCol(csv.train.names[1]).values)
    /\ IdealCol(csv.ideal.names[1]) = TrainCol(csv.train.names[1])
    /\ \A k \in 1..Len(csv.train.x) :
          FLt(FInt(3), FAbs(FSub(IdealCol(csv.ideal.names[2]).values[k],
                                 TrainCol(csv.train.names[1]).values[k])))

\* C20: in scenario A, get_ideal_functions selects the first ideal column
\* for the training column and sets its bound to exactly 0.
C20_ScenarioAExactMatchHasZeroBound ==
    (ScenarioA /\ SelectSucceeded
        /\ data_db.TrainingData = csv.train /\ data_db.IdealFunctions = csv.ideal)
    => /\ ideal_functions_selection = <<<<csv.train.names[1], csv.ideal.names[1]>>>>
       /\ csv.train.names[1] \in DOMAIN training_data_max_deviations
       /\ Bound(csv.train.names[1]) = FInt(0)

\* C20 where the training column is constant: the fit of the first ideal
\* column reproduces it.
C20_HoldsOnAConstant ==
    (ScenarioA /\ SelectSucceeded
        /\ data_db.TrainingData = csv.train /\ data_db.IdealFunctions = csv.ideal
        /\ \A k \in 1..Len(csv.ideal.x) :
              IdealCol(csv.ideal.names[1]).values[k] = IdealCol(csv.ideal.names[1]).values[1])
    => /\ ideal_functions_selection = <<<<csv.train.names[1], csv.ideal.names[1]>>>>
       /\ Bound(csv.train.names[1]) = FInt(0)

\* ------------------------------------------------------------------ C21
\* A step of one of the operations of the service.
OperationStep == last'.op \in {"select", "map", "load", "visualize"} /\ csv' = csv

\* C21: the tables have replace semantics. After an operation every table of
\* the data database holds either exactly the rows of the file of its kind
\* (load_data succeeded for that kind) or exactly what it held before (it was
\* not loaded); a table whose load succeeded holds the rows of the file,
\* whatever it held before; loading one kind changes no other table, and
\* the results table holds exactly the records just saved, or what it held
\* before when nothing was saved.
C21_TablesAreReplaced ==
    [][OperationStep
       => /\ \A kind \in {"train", "ideal", "test"} :
                \/ data_db'[TableOf(kind)] = csv[kind]
                \/ data_db'[TableOf(kind)] = data_db[TableOf(kind)]
          /\ last'.loaded /\ last'.op = "select"
                => /\ data_db'.TrainingData = csv.train
                   /\ data_db'.IdealFunctions = csv.ideal
                   /\ csv.test.exists => data_db'.TestData = csv.test
          /\ last'.loaded /\ last'.op = "map"
                => /\ data_db'.TestData = csv.test
                   /\ data_db'.IdealFunctions = csv.ideal
                   /\ data_db'.TrainingData = data_db.TrainingData
          /\ last'.op = "map" /\ csv.test.exists => data_db'.TestData = csv.test
          /\ last'.op = "select" /\ csv.train.exists => data_db'.TrainingData = csv.train
          /\ last'.op = "load" /\ last'.status_code # 500
                => \E kind \in {"train", "ideal", "test"} :
                       data_db' = [data_db EXCEPT ![TableOf(kind)] = csv[kind]]
          /\ last'.op = "select" => results_db' = results_db
          /\ last'.stored
                => results_db' = [exists |-> TRUE, rows |-> Stored(last'.mapping_results)]
          /\ ~last'.stored => results_db' = results_db]_vars

\* A map has replaced the test table and the results table while the training
\* table still holds the rows of an earlier load that differ from its file.
C21_Witness ==
    /\ last.op = "map" /\ last.loaded /\ last.stored
    /\ data_db.TestData = csv.test
    /\ data_db.TrainingData.exists /\ csv.train.exists
    /\ data_db.TrainingData # csv.train
    /\ results_db.rows = Stored(last.mapping_results)

\* ------------------------------------------------------------------ C23
\* get_ideal_functions ran its loops on the tables of the current files.
SelectRanOnFiles ==
    /\ last.op = "select" /\ last.loaded
    /\ data_db.TrainingData = csv.train /\ data_db.IdealFunctions = csv.ideal

\* C23: a pair whose evaluation failed is never selected, and a failure ends
\* neither loop: the selection has one entry per training column, in column
\* order, and for every training column with a pair that could be evaluated
\* the entry names an evaluated ideal column of smallest deviation among all
\* the evaluated pairs of that column, those after a failed pair included.
C23_FailedPairSkippedLoopsContinue ==
    SelectRanOnFiles =>
        \A dev \in {Deviations} :
            /\ Len(ideal_functions_selection) = Len(csv.train.names)
            /\ \A k \in 1..Len(ideal_functions_selection) :
                  /\ ideal_functions_selection[k][1] = csv.train.names[k]
                  /\ ideal_functions_selection[k][2] # None
                        => /\ ideal_functions_selection[k][2] \in IdealSet
                           /\ FitSucceeds(csv.train.names[k], ideal_functions_selection[k][2])
                  /\ \A i \in IdealSet :
                        FitSucceeds(csv.train.names[k], i)
                        => /\ ideal_functions_selection[k][2] # None
                           /\ FLe(dev[csv.train.names[k], ideal_functions_selection[k][2]],
                                  dev[csv.train.names[k], i])

\* The first training column failed with every ideal column, and the second
\* was given the second ideal column after its pair with the first failed.
C23_Witness ==
    /\ SelectRanOnFiles
    /\ Len(ideal_functions_selection) = 2
    /\ \A i \in IdealSet : ~FitSucceeds(csv.train.names[1], i)
    /\ ~FitSucceeds(csv.train.names[2], csv.ideal.names[1])
    /\ ideal_functions_selection[1][2] = None
    /\ ideal_functions_selection[2][2] = csv.ideal.names[2]

\* ------------------------------------------------------------------ C25
\* C25: map_test_data_to_ideal_functions leaves the selection, the bounds and
\* the data of the selected functions as they were, whether it stores its
\* records, matches nothing, raises, fails to load a table or fails to store.
C25_MapLeavesSelectionState ==
    [][(last'.op = "map" /\ csv' = csv)
       => /\ ideal_functions_selection' = ideal_functions_selection
          /\ training_data_max_deviations' = training_data_max_deviations
          /\ ideal_functions_data' = ideal_functions_data]_vars

\* A map on a stored selection with bounds built records and failed to store
\* them.
C25_Witness ==
    /\ last.op = "map" /\ last.loaded /\ ~last.stored /\ last.mapping_results # <<>>
    /\ Selected # {}
    /\ ideal_functions_data # <<>>
    /\ \E t \in DOMAIN training_data_max_deviations : IsFinite(Bound(t))

\* ------------------------------------------------------------------ C24
\* The inputs a regression step can be given on the current files: the x
\* columns, every column of the training and ideal files as target, and the x
\* values of the three files as query point.
FitGrids == {f.x : f \in {g \in {csv.train, csv.ideal} : Len(g.x) > 0}}
FitTargets ==
    {csv.train.cols[n] : n \in TrainSet} \cup {csv.ideal.cols[n] : n \in IdealSet}
QueryPoints ==
    UNION {{f.x[k] : k \in 1..Len(f.x)} : f \in {csv.train, csv.ideal, csv.test}}

\* C24: the regression step is a function of its inputs. On the instance as
\* any sequence of select and map invocations has left it, fit-and-predict
\* raises or returns exactly as it does on an instance that was never fitted
\* before the call, for every grid, target column and query point of the
\* current files.
C24_RegressionStepIgnoresEarlierFits ==
    \A fit_x \in FitGrids : \A fit_y \in FitTargets : \A query_x \in QueryPoints :
        /\ FitAndPredict(model, fit_x, fit_y, query_x).ok
              = FitAndPredict(Unfitted, fit_x, fit_y, query_x).ok
        /\ FitAndPredict(model, fit_x, fit_y, query_x).val
              = FitAndPredict(Unfitted, fit_x, fit_y, query_x).val

\* The instance holds the line of an earlier fit, the files hold a column
\* whose fit raises and a column whose fit stores another line.
C24_Witness ==
    /\ model.fitted
    /\ last.op \in {"select", "map"}
    /\ \E fit_x \in FitGrids : \E fit_y \in FitTargets : ~ModelFit(fit_x, fit_y).ok
    /\ \E fit_x \in FitGrids : \E fit_y \in FitTargets :
          /\ ModelFit(fit_x, fit_y).ok
          /\ FitInto(model, fit_x, fit_y) # model

====
